---- MODULE Spec2Model ----
(***************************************************************************)
(* Model of the LEED credit assessment core of green-ai-mvp:               *)
(*   - LEEDRuleEngine / EACr6RuleSet / IEQCr5RuleSet / CalculationModule   *)
(*     and LEEDDataConsolidator           (src/src/utils/LEEDRules.js)     *)
(*   - RuleEngine / RULE_DEFINITIONS      (src/unnamed/part_001)           *)
(*   - getStaticTestData                  (src/unnamed/part_000)           *)
(*                                                                         *)
(* JavaScript values are records [t, n, s]: t is the type tag, n the       *)
(* number in thousandths (49.999 is 49999), s the text of a string.        *)
(* Results of floating point arithmetic are extended rationals             *)
(* [k, n, d] with k in {"fin", "inf", "ninf", "nan"}; finite values are    *)
(* exact fractions n/d, so rounding of IEEE doubles is not modelled.       *)
(***************************************************************************)
EXTENDS Integers, Sequences, FiniteSets, TLC

VARIABLES
  data,      \* the flat parameter map handed to an evaluator
  units,     \* the unit system tag handed to an evaluator
  result,    \* what the last evaluator call returned
  pc,        \* which call produced `result`
  creditId,  \* the credit the evaluators are asked about
  docs,      \* multiDocData: the documents, in key insertion order
  options,   \* the options object given to consolidateData
  cons       \* what consolidateData returned

vars == <<data, units, result, pc, creditId, docs, options, cons>>

----------------------------------------------------------------------------
(* JavaScript values                                                       *)

Undefined == [t |-> "undefined", n |-> 0, s |-> ""]
Null == [t |-> "null", n |-> 0, s |-> ""]
Str(text) == [t |-> "string", n |-> 0, s |-> text]
Num(milli) == [t |-> "number", n |-> milli, s |-> ""]
Whole(i) == Num(i * 1000)

\* The strings of the model that parseFloat reads as a number (thousandths).
NumericStrings == ("0" :> 0) @@ ("7" :> 7000) @@ ("4" :> 4000)

\* !!v is true
Truthy(v) ==
  CASE v.t = "string" -> v.s # ""
    [] v.t = "number" -> v.n # 0
    [] OTHER -> FALSE

\* v === undefined || v === null || v === ''
IsEmpty(v) == v.t \in {"undefined", "null"} \/ (v.t = "string" /\ v.s = "")

----------------------------------------------------------------------------
(* Numbers: exact fractions extended with NaN and the infinities           *)

Abs(i) == IF i < 0 THEN -i ELSE i

RECURSIVE Gcd(_, _)
Gcd(a, b) == IF b = 0 THEN a ELSE Gcd(b, a % b)

NaN == [k |-> "nan", n |-> 0, d |-> 1]
PosInf == [k |-> "inf", n |-> 0, d |-> 1]
NegInf == [k |-> "ninf", n |-> 0, d |-> 1]

\* the fraction n/d (d # 0) in lowest terms with a positive denominator
Frac(n, d) ==
  LET g == Gcd(Abs(n), Abs(d))
      sg == IF d < 0 THEN -1 ELSE 1
  IN [k |-> "fin", n |-> sg * (n \div g), d |-> sg * (d \div g)]

\* (a/b) * (c/d), b # 0 and d # 0, cancelling before it multiplies
FracMul(a, b, c, d) ==
  LET g1 == Gcd(Abs(a), Abs(d))
      g2 == Gcd(Abs(c), Abs(b))
  IN Frac((a \div g1) * (c \div g2), (b \div g2) * (d \div g1))

Int2X(i) == Frac(i, 1)
Zero == Int2X(0)
One == Int2X(1)

Sign(x) ==
  CASE x.k = "inf" -> 1
    [] x.k = "ninf" -> -1
    [] x.k = "fin" -> IF x.n > 0 THEN 1 ELSE IF x.n < 0 THEN -1 ELSE 0
    [] OTHER -> 0

Signed(sg) == IF sg > 0 THEN PosInf ELSE NegInf

IsNaN(x) == x.k = "nan"

\* x * y
Mul(x, y) ==
  IF IsNaN(x) \/ IsNaN(y) THEN NaN
  ELSE IF x.k = "fin" /\ y.k = "fin" THEN FracMul(x.n, x.d, y.n, y.d)
  ELSE IF Sign(x) = 0 \/ Sign(y) = 0 THEN NaN
  ELSE Signed(Sign(x) * Sign(y))

\* x / y (no negative zero: the model's divisors are never negative)
Div(x, y) ==
  IF IsNaN(x) \/ IsNaN(y) THEN NaN
  ELSE IF y.k # "fin" THEN (IF x.k = "fin" THEN Zero ELSE NaN)
  ELSE IF y.n = 0 THEN (IF Sign(x) = 0 THEN NaN ELSE Signed(Sign(x)))
  ELSE IF x.k # "fin" THEN Signed(Sign(x) * Sign(y))
  ELSE FracMul(x.n, x.d, y.d, y.n)

\* x + y
Add(x, y) ==
  IF IsNaN(x) \/ IsNaN(y) THEN NaN
  ELSE IF x.k = "fin" /\ y.k = "fin"
    THEN LET g == Gcd(x.d, y.d)
         IN Frac(x.n * (y.d \div g) + y.n * (x.d \div g), (x.d \div g) * y.d)
  ELSE IF x.k = "fin" THEN y
  ELSE IF y.k = "fin" THEN x
  ELSE IF x.k = y.k THEN x ELSE NaN

\* x < y and x <= y: false as soon as one side is NaN
Lt(x, y) ==
  /\ ~IsNaN(x) /\ ~IsNaN(y)
  /\ CASE x.k = "fin" /\ y.k = "fin" ->
            LET g == Gcd(x.d, y.d) IN x.n * (y.d \div g) < y.n * (x.d \div g)
       [] x.k = "ninf" -> y.k # "ninf"
       [] y.k = "inf" -> x.k # "inf"
       [] OTHER -> FALSE

Le(x, y) == ~IsNaN(x) /\ ~IsNaN(y) /\ ~Lt(y, x)

\* parseFloat(v): the number itself, a numeric string's number, NaN otherwise
ParseFloat(v) ==
  CASE v.t = "number" -> Frac(v.n, 1000)
    [] v.t = "string" /\ v.s \in DOMAIN NumericStrings -> Frac(NumericStrings[v.s], 1000)
    [] OTHER -> NaN

\* ToNumber(v), as the relational operators apply it to an operand
ToNumber(v) ==
  CASE v.t = "number" -> Frac(v.n, 1000)
    [] v.t = "null" -> Zero
    [] v.t = "undefined" -> NaN
    [] v.s = "" -> Zero
    [] v.s \in DOMAIN NumericStrings -> Frac(NumericStrings[v.s], 1000)
    [] OTHER -> NaN

\* x || dflt, for a number x: NaN and 0 are falsy
OrElse(x, dflt) == IF IsNaN(x) \/ (x.k = "fin" /\ x.n = 0) THEN dflt ELSE x

\* -x and x - y
Neg(x) ==
  CASE x.k = "fin" -> Frac(-x.n, x.d)
    [] x.k = "inf" -> NegInf
    [] x.k = "ninf" -> PosInf
    [] OTHER -> NaN

Sub(x, y) == Add(x, Neg(y))

----------------------------------------------------------------------------
(* Calculation Module (LEEDRules.js)                                       *)

ThresholdIP == 100
\* mutant: the metric threshold is never selected
ThresholdSI_imperial == ThresholdIP
ThresholdSI == 13
OdpWeight == 100000

\* data[param]: a key the map does not hold reads as undefined
Get(d, param) == IF param \in DOMAIN d THEN d[param] ELSE Undefined

\* calculations: null, and the empty object {}
NoCalculations == [none |-> "null"]
EmptyObject == [none |-> "{}"]

CalculationModule_calculateRefrigerantImpact(d, u) ==
  LET gwp == ParseFloat(Get(d, "GWP"))
      odp == OrElse(ParseFloat(Get(d, "ODP")), Zero)
      leakageRate == Div(ParseFloat(Get(d, "Leakage Rate")), Int2X(100))
      life == ParseFloat(Get(d, "Equipment Life"))
      refrigerantCharge == ParseFloat(Get(d, "Refrigerant charge"))
      coolingCapacity == ParseFloat(Get(d, "Equipment Cooling Capacity"))
      quantity == OrElse(ParseFloat(Get(d, "Equipment Quantity")), One)
      maintenanceFactor == One
      factor == Add(Mul(leakageRate, life), maintenanceFactor)
      lcodp == Div(Mul(Mul(odp, factor), refrigerantCharge), life)
      lcgwp == Div(Mul(Mul(gwp, factor), refrigerantCharge), life)
      unitImpact == Add(lcgwp, Mul(lcodp, Int2X(OdpWeight)))
      totalImpact == Mul(Mul(unitImpact, coolingCapacity), quantity)
      totalCapacity == Mul(coolingCapacity, quantity)
      weightedAverage == Div(totalImpact, totalCapacity)
      threshold == IF u = "IP" THEN ThresholdIP ELSE ThresholdSI
  IN [lcodp |-> lcodp, lcgwp |-> lcgwp, unitImpact |-> unitImpact,
      totalImpact |-> totalImpact, totalCapacity |-> totalCapacity,
      weightedAverage |-> weightedAverage, threshold |-> threshold,
      units |-> u, compliant |-> Le(weightedAverage, Int2X(threshold))]

----------------------------------------------------------------------------
(* EACr6RuleSet (LEEDRules.js)                                             *)

\* the Equipment Type strings whose lower case includes 'refrigeration'
RefrigerationTypes == {"Commercial Refrigeration"}

\* a thrown exception, in place of a returned result
TypeError == [exception |-> "TypeError"]
Returned(r) == "exception" \notin DOMAIN r

\* mutant: a falsy value, the number 0 included, counts as missing
IsMissing_falsy(v) == ~Truthy(v)

\* v === undefined || v === null
IsMissing(v) == v.t \in {"undefined", "null"}

\* data['GWP'] >= 50
GwpAtLeast50(v) == Le(Int2X(50), ToNumber(v))

assessOption1(d) ==
  LET ru == Get(d, "Refrigerant Used")
      odp == Get(d, "ODP")
      gwp == Get(d, "GWP")
      cs == Get(d, "Confirmation Statement")
      g1 == IF ~Truthy(ru) THEN <<"Refrigerant Used">> ELSE <<>>
      odpGap == IsMissing(odp)
      odpExit == ~odpGap /\ ~(odp.t = "number" /\ odp.n = 0)
      g2 == IF odpGap THEN Append(g1, "ODP Value") ELSE g1
      gwpGap == IsMissing(gwp)
      gwpExit == ~gwpGap /\ GwpAtLeast50(gwp)
      g3 == IF gwpGap THEN Append(g2, "GWP Value") ELSE g2
      g4 == IF ~Truthy(cs) THEN Append(g3, "Confirmation Statement") ELSE g3
      req(o, g, c) == [refrigerantUsed |-> Truthy(ru), odpZero |-> o,
                       gwpLessThan50 |-> g, confirmationStatement |-> c]
  IN IF odpExit
       THEN [option |-> 1, compliant |-> FALSE, gaps |-> g1,
             requirements |-> req(FALSE, FALSE, FALSE)]
     ELSE IF gwpExit
       THEN [option |-> 1, compliant |-> FALSE, gaps |-> g2,
             requirements |-> req(~odpGap, FALSE, FALSE)]
     ELSE [option |-> 1,
           compliant |-> g4 = <<>> /\ Truthy(ru) /\ ~odpGap /\ ~gwpGap /\ Truthy(cs),
           gaps |-> g4,
           requirements |-> req(~odpGap, ~gwpGap, Truthy(cs))]

EACr6RequiredParams ==
  <<"GWP", "Refrigerant charge", "Leakage Rate", "Equipment Life",
    "Equipment Cooling Capacity", "Equipment Quantity">>

\* the members of the list `params` that are undefined, null or '' / falsy
MissingEmpty(d, params) == SelectSeq(params, LAMBDA p : IsEmpty(Get(d, p)))
MissingFalsy(d, params) == SelectSeq(params, LAMBDA p : ~Truthy(Get(d, p)))

\* the value on which .toLowerCase() is called is not a string
assessOption2Throws(d) ==
  Truthy(Get(d, "Equipment Type")) /\ Get(d, "Equipment Type").t # "string"

\* what assessOption2 returns once its gaps and the calculation are known
Option2Result(gaps, calculations, threshold) ==
  IF gaps # <<>>
    THEN [option |-> 2, compliant |-> FALSE, gaps |-> gaps, nonCompliant |-> <<>>,
          calculations |-> NoCalculations]
  ELSE LET within == Le(calculations.weightedAverage, Int2X(threshold))
       IN [option |-> 2, compliant |-> within, gaps |-> gaps,
           nonCompliant |-> IF within THEN <<>>
                            ELSE <<"Weighted average exceeds threshold">>,
           calculations |-> calculations]

assessOption2(d, u) ==
  LET g1 == MissingEmpty(d, EACr6RequiredParams)
      refrigeration == Truthy(Get(d, "Equipment Type"))
                       /\ Get(d, "Equipment Type").s \in RefrigerationTypes
      g2 == IF refrigeration
              THEN MissingFalsy(d, <<"Leakage Test Results", "Greenchill Certification Status">>)
              ELSE <<>>
  IN Option2Result(g1 \o g2, CalculationModule_calculateRefrigerantImpact(d, u),
                   IF u = "IP" THEN ThresholdIP ELSE ThresholdSI)

\* what assess returns from the results of the two options
EACr6Award(d, option1Result, option2Result) ==
  LET hasBasicRefrigerantData ==
        /\ Truthy(Get(d, "Refrigerant Used"))
        /\ Get(d, "ODP").t # "undefined"
        /\ Get(d, "GWP").t # "undefined"
      won == option2Result.compliant /\ option2Result.gaps = <<>>
  IN IF hasBasicRefrigerantData /\ option1Result.compliant
       THEN [creditId |-> "EACr6", awarded |-> TRUE, points |-> 1, maxPoints |-> 1,
             gaps |-> <<>>, nonCompliant |-> <<>>, option |-> 1,
             details |-> option1Result]
     ELSE IF assessOption2Throws(d) THEN TypeError
     ELSE [creditId |-> "EACr6", awarded |-> won, points |-> IF won THEN 1 ELSE 0,
           maxPoints |-> 1, gaps |-> option2Result.gaps,
           nonCompliant |-> option2Result.nonCompliant, option |-> 2,
           details |-> option2Result]

EACr6RuleSet_assess(d, u) == EACr6Award(d, assessOption1(d), assessOption2(d, u))
----------------------------------------------------------------------------
(* RuleEngine: EACr6 (part_001)                                            *)

RULE_DEFINITIONS ==
  [EACr6 |-> [name |-> "Enhanced Refrigerant Management", maxPoints |-> 1,
              parameters |->
                {"Refrigerant Used", "ODP", "GWP", "Confirmation Statement",
                 "Equipment Type", "Refrigerant charge", "Leakage Rate",
                 "Equipment Life", "Equipment Cooling Capacity", "Equipment Quantity",
                 "Leakage Test Results", "Greenchill Certification Status"}],
   IEQCr5 |-> [name |-> "Indoor Environmental Quality", maxPoints |-> 1,
               parameters |->
                 {"Compliance Path", "PMV", "PPD", "Operative Temperature Range",
                  "Relative Humidity Range", "Air Speed", "Clothing Insulation",
                  "Metabolic Rate", "Weather Data Source", "Total Individual Spaces",
                  "Controlled Spaces", "Group Controls", "Thermostat Locations"}],
   WECr1 |-> [name |-> "Water Efficiency - Outdoor Water Use Reduction", maxPoints |-> 2,
              parameters |->
                {"Baseline Water Use", "Design Water Use", "Reduction Percentage",
                 "Irrigation System Type", "Plant Selection", "Weather Data"}],
   EACr1 |-> [name |-> "Energy Performance - Optimize Energy Performance",
              maxPoints |-> 18,
              parameters |->
                {"Baseline Energy Use", "Design Energy Use", "Energy Model",
                 "HVAC Systems", "Lighting Systems", "Building Envelope"}],
   SSCr1 |-> [name |-> "Sustainable Sites - Site Assessment", maxPoints |-> 1,
              parameters |->
                {"Site Survey", "Environmental Features", "Previous Use",
                 "Surrounding Development", "Transportation Options"}],
   MRCr1 |-> [name |-> "Materials and Resources - Building Life-Cycle Impact Reduction",
              maxPoints |-> 5,
              parameters |->
                {"Building Reuse Percentage", "Structural Elements",
                 "Enclosure Materials", "Life Cycle Assessment", "Material Selection"}],
   IEQCr1 |-> [name |-> "Indoor Environmental Quality - Enhanced Indoor Air Quality Strategies",
               maxPoints |-> 2,
               parameters |->
                 {"Outdoor Air Delivery Monitoring", "Increased Ventilation",
                  "Air Filtration", "IAQ Management Plan"}]]

\* the result object evaluateCredit starts from
PendingResult(id) ==
  [creditId |-> id, creditName |-> RULE_DEFINITIONS[id].name,
   maxPoints |-> RULE_DEFINITIONS[id].maxPoints, awardedPoints |-> 0,
   status |-> "pending", gaps |-> <<>>, nonCompliant |-> <<>>,
   calculations |-> EmptyObject, details |-> <<>>]

RuleEngine_calculateRefrigerantImpact(d, u) ==
  LET gwp == ParseFloat(Get(d, "GWP"))
      odp == OrElse(ParseFloat(Get(d, "ODP")), Zero)
      charge == ParseFloat(Get(d, "Refrigerant Charge"))
      leakageRate == Div(ParseFloat(Get(d, "Leakage Rate")), Int2X(100))
      life == ParseFloat(Get(d, "Equipment Life"))
      coolingCapacity == ParseFloat(Get(d, "Equipment Cooling Capacity"))
      quantity == ParseFloat(Get(d, "Equipment Quantity"))
      mr == One
      factor == Add(Mul(leakageRate, life), mr)
      lcodp == Div(Mul(Mul(odp, factor), charge), life)
      lcgwp == Div(Mul(Mul(gwp, factor), charge), life)
      impact == Add(lcgwp, Mul(lcodp, Int2X(OdpWeight)))
      totalCoolingCapacity == Mul(coolingCapacity, quantity)
      weightedAverage == Div(Mul(impact, totalCoolingCapacity), totalCoolingCapacity)
  IN [lcodp |-> lcodp, lcgwp |-> lcgwp, impact |-> impact,
      weightedAverage |-> weightedAverage,
      totalCoolingCapacity |-> totalCoolingCapacity, unitSystem |-> u]

checkEACr6Option1(d) ==
  LET ru == Get(d, "Refrigerant Used")
      odp == Get(d, "ODP")
      gwp == Get(d, "GWP")
      cs == Get(d, "Confirmation Statement")
      odpOk == (odp.t = "number" /\ odp.n = 0) \/ (odp.t = "string" /\ odp.s = "0")
      gwpOk == Truthy(gwp) /\ ~Le(Int2X(50), ParseFloat(gwp))
  IN [compliant |-> Truthy(ru) /\ odpOk /\ gwpOk /\ Truthy(cs),
      gaps |-> (IF ~Truthy(ru) THEN <<"Refrigerant Used">> ELSE <<>>)
               \o (IF ~Truthy(cs) THEN <<"Confirmation Statement">> ELSE <<>>)]

RuleEngineRequiredParams ==
  <<"GWP", "Refrigerant Charge", "Leakage Rate", "Equipment Life",
    "Equipment Cooling Capacity", "Equipment Quantity">>

\* what checkEACr6Option2 returns once the calculation is known
RuleEngineOption2Result(gaps, calculations, threshold) ==
  IF Len(gaps) > 0
    THEN [compliant |-> FALSE, gaps |-> gaps, nonCompliant |-> <<>>,
          calculations |-> EmptyObject]
  ELSE IF Le(calculations.weightedAverage, Int2X(threshold))
    THEN [compliant |-> TRUE, gaps |-> <<>>, nonCompliant |-> <<>>,
          calculations |-> calculations]
  ELSE [compliant |-> FALSE, gaps |-> <<>>,
        nonCompliant |-> <<"Weighted average exceeds threshold">>,
        calculations |-> calculations]

checkEACr6Option2(d, u) ==
  RuleEngineOption2Result(MissingFalsy(d, RuleEngineRequiredParams),
                          RuleEngine_calculateRefrigerantImpact(d, u),
                          IF u = "SI" THEN ThresholdSI ELSE ThresholdIP)

\* what evaluateEACr6 makes of `res` from the results of the two options
EACr6Evaluation(res, option1Result, option2Result) ==
  LET gaps1 == res.gaps \o option1Result.gaps
  IN IF option1Result.compliant
       THEN [res EXCEPT !.awardedPoints = 1, !.status = "compliant",
               !.details = Append(@, "Option 1: No Refrigerants or Low-Impact Refrigerants")]
     ELSE IF option2Result.compliant
       THEN [res EXCEPT !.gaps = gaps1, !.awardedPoints = 1, !.status = "compliant",
               !.details = Append(@, "Option 2: Calculation of Refrigerant Impact"),
               !.calculations = option2Result.calculations]
     ELSE [res EXCEPT !.status = "non_compliant",
             !.nonCompliant = @ \o option2Result.nonCompliant,
             !.gaps = gaps1 \o option2Result.gaps]

evaluateEACr6(d, u, res) ==
  EACr6Evaluation(res, checkEACr6Option1(d), checkEACr6Option2(d, u))

----------------------------------------------------------------------------
(* IEQCr5RuleSet (LEEDRules.js)                                            *)

\* CalculationModule.calculateSpacePercentage: the percentage, or the thrown error
calculateSpacePercentage(totalSpaces, controlledSpaces) ==
  LET total == ParseFloat(totalSpaces)
      controlled == ParseFloat(controlledSpaces)
  IN IF Le(total, Zero)
       THEN [exception |-> "Total spaces must be greater than 0"]
     ELSE [value |-> Mul(Div(controlled, total), Int2X(100))]

EnvironmentalParams ==
  <<"Operative Temperature Range", "Relative Humidity Range", "Air Speed",
    "Clothing Insulation", "Metabolic Rate", "Weather Data Source">>

assessPart1(d) ==
  LET cp == Get(d, "Compliance Path")
      pmvGap == IsMissing(Get(d, "PMV"))
      pmv == ParseFloat(Get(d, "PMV"))
      pmvInRange == ~pmvGap /\ Le(Frac(-5, 10), pmv) /\ Le(pmv, Frac(5, 10))
      ppdGap == IsMissing(Get(d, "PPD"))
      ppd == ParseFloat(Get(d, "PPD"))
      ppdCompliant == ~ppdGap /\ Lt(ppd, Int2X(10))
      missingEnvData == MissingFalsy(d, EnvironmentalParams)
      gaps == (IF ~Truthy(cp) THEN <<"Compliance Path">> ELSE <<>>)
              \o (IF pmvGap THEN <<"PMV">> ELSE <<>>)
              \o (IF ppdGap THEN <<"PPD">> ELSE <<>>)
              \o missingEnvData
      nonCompliant ==
        (IF ~pmvGap /\ ~pmvInRange THEN <<"PMV is outside acceptable range">> ELSE <<>>)
        \o (IF ~ppdGap /\ ~ppdCompliant THEN <<"PPD is not less than 10%">> ELSE <<>>)
      requirements == [compliancePath |-> Truthy(cp), pmvInRange |-> pmvInRange,
                       ppdCompliant |-> ppdCompliant,
                       environmentalDataComplete |-> missingEnvData = <<>>]
  IN [part |-> 1,
      compliant |-> /\ gaps = <<>> /\ nonCompliant = <<>>
                    /\ \A r \in DOMAIN requirements : requirements[r],
      gaps |-> gaps, nonCompliant |-> nonCompliant, requirements |-> requirements]

assessPart2(d) ==
  LET total == Get(d, "Total Individual Spaces")
      controlled == Get(d, "Controlled Spaces")
      calculate == Truthy(total) /\ Truthy(controlled)
      outcome == calculateSpacePercentage(total, controlled)
      threw == calculate /\ "exception" \in DOMAIN outcome
      spacePercentageCompliant ==
        calculate /\ ~threw /\ Lt(Int2X(50), outcome.value)
      gaps == (IF ~Truthy(total) THEN <<"Total Individual Spaces">> ELSE <<>>)
              \o (IF ~Truthy(controlled) THEN <<"Controlled Spaces">> ELSE <<>>)
              \o MissingFalsy(d, <<"Group Controls", "Thermostat Locations">>)
      nonCompliant ==
        IF threw THEN <<"Space calculation error: Total spaces must be greater than 0">>
        ELSE IF calculate /\ ~spacePercentageCompliant
          THEN <<"Controlled spaces percentage is not greater than 50%">>
        ELSE <<>>
      requirements ==
        [spacePercentageCompliant |-> spacePercentageCompliant,
         groupControlsPresent |-> Truthy(Get(d, "Group Controls")),
         thermostatLocationsPresent |-> Truthy(Get(d, "Thermostat Locations"))]
  IN [part |-> 2,
      compliant |-> /\ gaps = <<>> /\ nonCompliant = <<>>
                    /\ \A r \in DOMAIN requirements : requirements[r],
      gaps |-> gaps, nonCompliant |-> nonCompliant,
      calculations |-> IF calculate /\ ~threw
                         THEN [spacePercentage |-> outcome.value]
                       ELSE NoCalculations,
      requirements |-> requirements]

\* what assess returns from the results of the two parts
IEQCr5Award(part1Result, part2Result) ==
  LET gaps == part1Result.gaps \o part2Result.gaps
      nonCompliant == part1Result.nonCompliant \o part2Result.nonCompliant
      won == /\ part1Result.compliant /\ part2Result.compliant
             /\ Len(gaps) = 0 /\ Len(nonCompliant) = 0
  IN [creditId |-> "IEQCr5", awarded |-> won, points |-> IF won THEN 1 ELSE 0,
      maxPoints |-> 1, gaps |-> gaps, nonCompliant |-> nonCompliant,
      parts |-> [part1 |-> part1Result, part2 |-> part2Result]]

\* mutant: part 2 is not assessed once part 1 has failed
IEQCr5RuleSet_assess_shortCircuit(d) ==
  IEQCr5Award(assessPart1(d),
              IF assessPart1(d).compliant THEN assessPart2(d)
              ELSE [part |-> 2, compliant |-> FALSE, gaps |-> <<>>,
                    nonCompliant |-> <<>>, calculations |-> NoCalculations])

IEQCr5RuleSet_assess(d) == IEQCr5Award(assessPart1(d), assessPart2(d))

----------------------------------------------------------------------------
(* RuleEngine: IEQCr5 (part_001)                                           *)

\* parseInt(v): the integer part of what parseFloat reads
ParseInt(v) ==
  LET x == ParseFloat(v)
  IN IF IsNaN(x) THEN NaN
     ELSE Int2X(IF x.n < 0 THEN -((-x.n) \div x.d) ELSE x.n \div x.d)

\* !x for a number x
Falsy(x) == IsNaN(x) \/ (x.k = "fin" /\ x.n = 0)

checkIEQCr5Part1(d) ==
  LET pmv == ParseFloat(Get(d, "PMV"))
      ppd == ParseFloat(Get(d, "PPD"))
      pmvBad == Falsy(pmv) \/ Lt(pmv, Frac(-5, 10)) \/ Lt(Frac(5, 10), pmv)
      ppdBad == Falsy(ppd) \/ Le(Int2X(10), ppd)
      gaps == MissingFalsy(d, <<"Compliance Path">>) \o MissingFalsy(d, EnvironmentalParams)
  IN [compliant |-> gaps = <<>> /\ ~pmvBad /\ ~ppdBad,
      gaps |-> gaps,
      nonCompliant |-> (IF pmvBad THEN <<"PMV must be between -0.5 and 0.5">> ELSE <<>>)
                       \o (IF ppdBad THEN <<"PPD must be less than 10%">> ELSE <<>>),
      calculations |-> EmptyObject]

checkIEQCr5Part2(d) ==
  LET totalSpaces == ParseInt(Get(d, "Total Individual Spaces"))
      controlledSpaces == ParseInt(Get(d, "Controlled Spaces"))
      noSpaces == Falsy(totalSpaces) \/ Falsy(controlledSpaces)
      percentage == Mul(Div(controlledSpaces, totalSpaces), Int2X(100))
      low == ~noSpaces /\ Lt(percentage, Int2X(50))
      gaps == (IF noSpaces
                 THEN <<"Total Individual Spaces and Controlled Spaces required">>
               ELSE <<>>)
              \o (IF ~Truthy(Get(d, "Group Controls"))
                    THEN <<"Group Controls markup">> ELSE <<>>)
              \o (IF ~Truthy(Get(d, "Thermostat Locations"))
                    THEN <<"Thermostat Locations markup">> ELSE <<>>)
  IN [compliant |-> gaps = <<>> /\ ~low,
      gaps |-> gaps,
      nonCompliant |-> IF low THEN <<"Thermal control percentage must be >= 50%">>
                       ELSE <<>>,
      calculations |-> IF noSpaces THEN EmptyObject
                       ELSE [thermalControlPercentage |-> percentage]]

\* what evaluateIEQCr5 makes of `res` from the results of the two parts
IEQCr5Evaluation(res, part1Result, part2Result) ==
  LET scored ==
        IF part1Result.compliant /\ part2Result.compliant
          THEN [res EXCEPT !.awardedPoints = 1, !.status = "compliant"]
        ELSE [res EXCEPT !.status = "non_compliant",
                !.gaps = part1Result.gaps \o part2Result.gaps,
                !.nonCompliant = part1Result.nonCompliant \o part2Result.nonCompliant]
  IN [scored EXCEPT !.calculations = part2Result.calculations]

evaluateIEQCr5(d, res) ==
  IEQCr5Evaluation(res, checkIEQCr5Part1(d), checkIEQCr5Part2(d))

----------------------------------------------------------------------------
(* LEEDDataConsolidator (LEEDRules.js)                                     *)
(*                                                                         *)
(* A document label and a priority pattern are sequences of text tokens;   *)
(* String.includes is the contiguous-subsequence test on them. An object   *)
(* whose key order matters is a sequence of entries in insertion order.    *)

\* this.priorityRules, in key insertion order
priorityRules ==
  << [pattern |-> <<"manufacturer_datasheet">>, priority |-> 10],
     [pattern |-> <<"equipment_schedule">>, priority |-> 8],
     [pattern |-> <<"specification">>, priority |-> 7],
     [pattern |-> <<"calculation">>, priority |-> 6],
     [pattern |-> <<"drawing">>, priority |-> 5],
     [pattern |-> <<"narrative">>, priority |-> 4],
     [pattern |-> <<"default">>, priority |-> 1] >>

\* String.toLowerCase, token by token
LowerToken(tok) ==
  CASE tok = "Notes" -> "notes"
    [] tok = "Report" -> "report"
    [] OTHER -> tok

toLowerCase(text) == [i \in DOMAIN text |-> LowerToken(text[i])]

\* text.includes(pattern)
includes(text, pattern) ==
  \E i \in 0..(Len(text) - Len(pattern)) :
    \A j \in 1..Len(pattern) : text[i + j] = pattern[j]

\* { ...base, ...custom }: the keys of base keep their place and take the value
\* custom gives them, the other keys of custom follow in custom's order
Spread(base, custom) ==
  LET valueIn(entries, pat) ==
        LET i == CHOOSE k \in DOMAIN entries : entries[k].pattern = pat
        IN entries[i].priority
      has(entries, pat) == \E k \in DOMAIN entries : entries[k].pattern = pat
  IN [i \in DOMAIN base |->
        IF has(custom, base[i].pattern)
          THEN [pattern |-> base[i].pattern, priority |-> valueIn(custom, base[i].pattern)]
        ELSE base[i]]
     \o SelectSeq(custom, LAMBDA e : ~has(base, e.pattern))

\* priorities.default || 1
DefaultPriority(priorities) ==
  LET hits == SelectSeq(priorities, LAMBDA e : e.pattern = <<"default">>)
  IN IF hits # <<>> /\ hits[1].priority # 0 THEN hits[1].priority ELSE 1

getDocumentPriority(docName, priorities) ==
  LET lowerDocName == toLowerCase(docName)
      hits == SelectSeq(priorities,
                        LAMBDA e : includes(lowerDocName, toLowerCase(e.pattern)))
  IN IF hits # <<>> THEN hits[1].priority ELSE DefaultPriority(priorities)

\* mutant: a candidate of equal priority replaces the best one so far
RECURSIVE BestOf_lastTie(_, _, _)
BestOf_lastTie(conflictList, priorities, best) ==
  IF conflictList = <<>> THEN best
  ELSE LET conflict == Head(conflictList)
           priority == getDocumentPriority(conflict.document, priorities)
       IN BestOf_lastTie(Tail(conflictList), priorities,
                 IF priority >= best.priority
                   THEN [conflict |-> conflict, priority |-> priority]
                 ELSE best)

\* the candidate the forEach of resolveBypriority leaves in bestConflict
RECURSIVE BestOf(_, _, _)
BestOf(conflictList, priorities, best) ==
  IF conflictList = <<>> THEN best
  ELSE LET conflict == Head(conflictList)
           priority == getDocumentPriority(conflict.document, priorities)
       IN BestOf(Tail(conflictList), priorities,
                 IF priority > best.priority
                   THEN [conflict |-> conflict, priority |-> priority]
                 ELSE best)

\* mutant: the first candidate is kept whatever the priorities
resolveBypriority_firstCandidate(conflictList, customPriorities) ==
  [value |-> conflictList[1].value, source |-> conflictList[1].document,
   priority |-> getDocumentPriority(conflictList[1].document,
                                    Spread(priorityRules, customPriorities))]

resolveBypriority(conflictList, customPriorities) ==
  LET priorities == Spread(priorityRules, customPriorities)
      first == [conflict |-> conflictList[1],
                priority |-> getDocumentPriority(conflictList[1].document, priorities)]
      best == BestOf(conflictList, priorities, first)
  IN [value |-> best.conflict.value, source |-> best.conflict.document,
      priority |-> best.priority]

\* mutant: the first candidate is taken for the latest
latestConflict_first(conflictList) == conflictList[1]

\* conflictList[conflictList.length - 1]
latestConflict(conflictList) == conflictList[Len(conflictList)]

\* mutant: the first candidate is taken whatever document the choice names
chosenConflict_orFirst(conflictList, document) ==
  <<conflictList[1]>>

\* conflictList.find(c => c.document === manualChoice.document): the empty
\* sequence stands for undefined, a one-element sequence for the entry found
chosenConflict(conflictList, document) ==
  LET matching == SelectSeq(conflictList, LAMBDA c : c.document = document)
  IN IF matching = <<>> THEN <<>> ELSE <<matching[1]>>

\* mutant: no policy matching, the parameter is left without a resolution
firstOccurrence_unresolved(parameter, firstData, firstSources) ==
  [resolved |-> FALSE, value |-> Undefined, source |-> <<>>, method |-> "none"]

\* the default branch of the switch: data[parameter], dataSources[parameter]
firstOccurrence(parameter, firstData, firstSources) ==
  [resolved |-> TRUE, value |-> firstData[parameter],
   source |-> firstSources[parameter], method |-> "first-occurrence"]

\* what one pass of the forEach of resolveConflicts decides for a parameter:
\* resolvedValue stays undefined when `resolved` is false
Resolution(parameter, conflictList, strategy, opts, firstData, firstSources) ==
  CASE strategy = "priority" ->
         LET r == resolveBypriority(conflictList, opts.customPriorities)
         IN [resolved |-> TRUE, value |-> r.value, source |-> r.source,
             method |-> "priority-based"]
    [] strategy = "latest" ->
         LET latest == latestConflict(conflictList)
         IN [resolved |-> TRUE, value |-> latest.value,
             source |-> latest.document, method |-> "latest-document"]
    [] strategy = "manual" ->
         LET chosen ==
               IF parameter \in DOMAIN opts.manualResolutions
                 THEN chosenConflict(conflictList, opts.manualResolutions[parameter])
               ELSE <<>>
         IN IF chosen # <<>>
              THEN [resolved |-> TRUE, value |-> chosen[1].value,
                    source |-> chosen[1].document, method |-> "manual-selection"]
            ELSE [resolved |-> FALSE, value |-> Undefined, source |-> <<>>,
                  method |-> "none"]
    [] OTHER -> firstOccurrence(parameter, firstData, firstSources)

\* the forEach of resolveConflicts over the entries of `conflicts`, in key order
RECURSIVE ResolveEach(_, _, _, _, _, _)
ResolveEach(keys, conflicts, strategy, opts, first, acc) ==
  IF keys = <<>> THEN acc
  ELSE LET parameter == Head(keys)
           r == Resolution(parameter, conflicts[parameter], strategy, opts,
                           first.data, first.sources)
       IN ResolveEach(Tail(keys), conflicts, strategy, opts, first,
            IF r.resolved
              THEN [data |-> [acc.data EXCEPT ![parameter] = r.value],
                    sources |-> [acc.sources EXCEPT ![parameter] = r.source],
                    resolutionLog |-> Append(acc.resolutionLog,
                      [parameter |-> parameter, conflicts |-> conflicts[parameter],
                       resolvedValue |-> r.value, resolvedSource |-> r.source,
                       method |-> r.method])]
            ELSE acc)

\* `found` holds consolidatedData, dataSources, conflicts and the key order of
\* conflicts as the document loop left them
resolveConflicts(found, strategy, opts) ==
  ResolveEach(found.conflictKeys, found.conflicts, strategy, opts, found,
              [data |-> found.data, sources |-> found.sources, resolutionLog |-> <<>>])

\* mutant: the first-recorded value is left out of the entry
FirstCandidate_omitted(acc, parameter) == <<>>

\* the list a parameter's entry of `conflicts` starts from
FirstCandidate(acc, parameter) ==
  <<[document |-> acc.sources[parameter], value |-> acc.data[parameter]]>>

\* the body of parameters.forEach for one declared parameter of document docName
RecordParameter(acc, docName, values, parameter) ==
  LET paramValue == Get(values, parameter)
  IN IF IsEmpty(paramValue) THEN acc
     ELSE IF parameter \in DOMAIN acc.data
       THEN LET started ==
                  IF parameter \in DOMAIN acc.conflicts THEN acc.conflicts[parameter]
                  ELSE FirstCandidate(acc, parameter)
            IN [acc EXCEPT
                  !.conflicts = (parameter :> Append(started,
                                   [document |-> docName, value |-> paramValue])) @@ @,
                  !.conflictKeys = IF parameter \in DOMAIN acc.conflicts THEN @
                                   ELSE Append(@, parameter)]
     ELSE [acc EXCEPT !.data = (parameter :> paramValue) @@ @,
                      !.sources = (parameter :> docName) @@ @]

RECURSIVE RecordParameters(_, _, _, _)
RecordParameters(acc, docName, values, parameters) ==
  IF parameters = <<>> THEN acc
  ELSE RecordParameters(RecordParameter(acc, docName, values, Head(parameters)),
                        docName, values, Tail(parameters))

\* the Object.entries(multiDocData).forEach of consolidateData
RECURSIVE RecordDocuments(_, _)
RecordDocuments(acc, documents) ==
  IF documents = <<>> THEN acc
  ELSE LET doc == Head(documents)
       IN RecordDocuments(
            IF ~doc.hasCredit
              THEN [acc EXCEPT !.processingLog = Append(@, doc.name)]
            ELSE RecordParameters(acc, doc.name, doc.Values, doc.Parameters),
            Tail(documents))

NothingFound ==
  [data |-> <<>>, sources |-> <<>>, conflicts |-> <<>>, conflictKeys |-> <<>>,
   processingLog |-> <<>>]

consolidateData(multiDocData, opts) ==
  LET found == RecordDocuments(NothingFound, multiDocData)
      resolvedData == resolveConflicts(found, opts.conflictResolution, opts)
  IN [data |-> resolvedData.data,
      sources |-> resolvedData.sources,
      conflicts |-> found.conflicts,
      conflictKeys |-> found.conflictKeys,
      resolutionLog |-> resolvedData.resolutionLog,
      processingInfo |->
        [documentsProcessed |-> Len(multiDocData),
         parametersFound |-> Cardinality(DOMAIN resolvedData.data),
         conflictsDetected |-> Cardinality(DOMAIN found.conflicts),
         conflictsResolved |-> Len(resolvedData.resolutionLog)],
      processingLog |-> found.processingLog]

----------------------------------------------------------------------------
(* RuleEngine: WECr1, EACr1, SSCr1, MRCr1 and IEQCr1 (part_001)            *)

\* ((baseline - design) / baseline) * 100
Reduction(baseline, design) == Mul(Div(Sub(baseline, design), baseline), Int2X(100))

WECr1Scored(res, reduction) ==
  LET measured == [res EXCEPT !.calculations = [waterReduction |-> reduction]]
  IN IF Le(Int2X(50), reduction)
       THEN [measured EXCEPT !.awardedPoints = 2, !.status = "compliant"]
     ELSE IF Le(Int2X(30), reduction)
       THEN [measured EXCEPT !.awardedPoints = 1, !.status = "compliant"]
     ELSE [measured EXCEPT !.status = "non_compliant",
             !.nonCompliant = Append(@, "Water reduction insufficient")]

WECr1Evaluation(res, baselineWater, designWater) ==
  IF Falsy(baselineWater) \/ Falsy(designWater)
    THEN [res EXCEPT !.status = "gaps",
            !.gaps = Append(@, "Baseline Water Use and Design Water Use required")]
  ELSE WECr1Scored(res, Reduction(baselineWater, designWater))

evaluateWECr1(d, res) ==
  WECr1Evaluation(res, ParseFloat(Get(d, "Baseline Water Use")),
                  ParseFloat(Get(d, "Design Water Use")))

\* RULE_DEFINITIONS.EACr1.rules.calculation.thresholds: the entries of a table
\* in key order, "6%": 1 being [threshold |-> 6, points |-> 1]
new_buildings == [i \in 1..18 |-> [threshold |-> 4 + 2 * i, points |-> i]]
existing_buildings == [i \in 1..18 |-> [threshold |-> 3 * i, points |-> i]]

\* the for loop of evaluateEACr1 over Object.entries(thresholds)
RECURSIVE tieredPoints(_, _, _)
tieredPoints(improvement, thresholds, points) ==
  IF thresholds = <<>> THEN points
  ELSE tieredPoints(improvement, Tail(thresholds),
                    IF Le(Int2X(Head(thresholds).threshold), improvement)
                      THEN Head(thresholds).points
                    ELSE points)

\* the catch block of evaluateCredit
Caught(res, message) ==
  [f \in DOMAIN res \cup {"error"} |->
     IF f = "error" THEN message ELSE IF f = "status" THEN "error" ELSE res[f]]

\* this.rules.EACr1.rules.calculation.thresholds[buildingType]; Object.entries
\* throws on the undefined that an unknown building type reads
EACr1Scored(res, buildingType, improvement, points) ==
  LET measured == [res EXCEPT !.calculations = [energyImprovement |-> improvement]]
  IN IF buildingType \notin {"new_buildings", "existing_buildings"}
       THEN Caught(measured, "Cannot convert undefined or null to object")
     ELSE [measured EXCEPT !.awardedPoints = points,
             !.status = IF points > 0 THEN "compliant" ELSE "non_compliant"]

\* String(v) of the truthy values of the model, as a property key
KeyOf(v) == IF v.t = "string" THEN v.s ELSE "a number"

EACr1Evaluation(res, baselineEnergy, designEnergy, buildingType) ==
  IF Falsy(baselineEnergy) \/ Falsy(designEnergy)
    THEN [res EXCEPT !.status = "gaps",
            !.gaps = Append(@, "Baseline Energy Use and Design Energy Use required")]
  ELSE EACr1Scored(res, buildingType, Reduction(baselineEnergy, designEnergy),
                   tieredPoints(Reduction(baselineEnergy, designEnergy),
                                IF buildingType = "existing_buildings"
                                  THEN existing_buildings ELSE new_buildings, 0))

evaluateEACr1(d, res) ==
  EACr1Evaluation(res, ParseFloat(Get(d, "Baseline Energy Use")),
                  ParseFloat(Get(d, "Design Energy Use")),
                  IF Truthy(Get(d, "Building Type"))
                    THEN KeyOf(Get(d, "Building Type")) ELSE "new_buildings")

requiredDocs ==
  <<"Site Survey", "Environmental Features", "Previous Use",
    "Surrounding Development", "Transportation Options">>

SSCr1Evaluation(res, gaps) ==
  IF Len(gaps) = 0
    THEN [res EXCEPT !.awardedPoints = 1, !.status = "compliant"]
  ELSE [res EXCEPT !.status = "gaps", !.gaps = gaps]

evaluateSSCr1(d, res) == SSCr1Evaluation(res, MissingFalsy(d, requiredDocs))

\* Math.max and Math.min of two integers
MathMax(a, b) == IF a >= b THEN a ELSE b
MathMin(a, b) == IF a <= b THEN a ELSE b

MRCr1Points(buildingReusePercentage, structuralReuse, enclosureReuse, lcaImprovement) ==
  LET option1 == IF Le(Int2X(50), buildingReusePercentage) THEN MathMax(0, 2) ELSE 0
      option2 == IF Le(Int2X(50), structuralReuse) THEN MathMax(option1, 2) ELSE option1
      enclosure == IF Le(Int2X(50), enclosureReuse)
                     THEN MathMax(option2, option2 + 1) ELSE option2
  IN IF Le(Int2X(10), lcaImprovement) THEN MathMax(enclosure, 3) ELSE enclosure

MRCr1Evaluation(res, points) ==
  [res EXCEPT !.awardedPoints = MathMin(points, 5),
     !.status = IF points > 0 THEN "compliant" ELSE "non_compliant"]

evaluateMRCr1(d, res) ==
  MRCr1Evaluation(res,
    MRCr1Points(ParseFloat(Get(d, "Building Reuse Percentage")),
                ParseFloat(Get(d, "Structural Elements Reuse")),
                ParseFloat(Get(d, "Enclosure Materials Reuse")),
                ParseFloat(Get(d, "Life Cycle Assessment Improvement"))))

IEQCr1Points(d) ==
  (IF Truthy(Get(d, "Outdoor Air Delivery Monitoring")) THEN 1 ELSE 0)
  + (IF Get(d, "Increased Ventilation") = Str("30_percent_above_standard") THEN 1 ELSE 0)
  + (IF Get(d, "Air Filtration") = Str("MERV_13_or_higher") THEN 1 ELSE 0)

\* mutant: the points of IEQCr1 are not capped
IEQCr1Evaluation_uncapped(res, points) ==
  [res EXCEPT !.awardedPoints = points,
     !.status = IF points > 0 THEN "compliant" ELSE "non_compliant"]

IEQCr1Evaluation(res, points) ==
  [res EXCEPT !.awardedPoints = MathMin(points, 2),
     !.status = IF points > 0 THEN "compliant" ELSE "non_compliant"]

evaluateIEQCr1(d, res) == IEQCr1Evaluation(res, IEQCr1Points(d))

----------------------------------------------------------------------------
(* The two engines' entry points                                           *)

\* LEEDRuleEngine.assessCredit
assessCredit(id, d, u) ==
  CASE id = "EACr6" -> EACr6RuleSet_assess(d, u)
    [] id = "IEQCr5" -> IEQCr5RuleSet_assess(d)
    [] OTHER -> [exception |-> "Error: credit not found in rule engine"]

\* RuleEngine.evaluateCredit; no statement of the EACr6 and IEQCr5
\* evaluations can throw, and evaluateEACr1 enters the catch block (Caught)
\* where its Object.entries throws
evaluateCredit(id, d, u) ==
  CASE id = "EACr6" -> evaluateEACr6(d, u, PendingResult(id))
    [] id = "IEQCr5" -> evaluateIEQCr5(d, PendingResult(id))
    [] id = "WECr1" -> evaluateWECr1(d, PendingResult(id))
    [] id = "EACr1" -> evaluateEACr1(d, PendingResult(id))
    [] id = "SSCr1" -> evaluateSSCr1(d, PendingResult(id))
    [] id = "MRCr1" -> evaluateMRCr1(d, PendingResult(id))
    [] id = "IEQCr1" -> evaluateIEQCr1(d, PendingResult(id))
    [] OTHER -> [exception |-> "Error: Rule not found for credit"]

----------------------------------------------------------------------------
(* Parameter maps given to the evaluators                                  *)

\* how many parameters of a base map an input map may override
MaxEdits == 2

UnitSystems == {"IP", "SI"}

EACr6Keys ==
  {"Refrigerant Used", "ODP", "GWP", "Confirmation Statement", "Equipment Type",
   "Refrigerant charge", "Refrigerant Charge", "Leakage Rate", "Equipment Life",
   "Equipment Cooling Capacity", "Equipment Quantity", "Leakage Test Results",
   "Greenchill Certification Status"}

\* the values each EACr6 parameter is drawn from
EACr6Values ==
  [p \in EACr6Keys |->
    CASE p = "Refrigerant Used" -> {Undefined, Null, Str(""), Str("R-32")}
      [] p = "ODP" -> {Undefined, Null, Str(""), Whole(0), Str("0"), Num(50)}
      [] p = "GWP" -> {Undefined, Null, Str(""), Whole(0), Whole(4), Num(49999),
                       Whole(50), Whole(675), Str("4"), Str("abc")}
      [] p = "Confirmation Statement" -> {Undefined, Str(""), Str("Yes")}
      [] p = "Equipment Type" -> {Undefined, Str("VRF System"),
                                  Str("Commercial Refrigeration"), Whole(5)}
      [] p = "Refrigerant charge" -> {Undefined, Str(""), Whole(0), Whole(1), Whole(45)}
      [] p = "Refrigerant Charge" -> {Undefined, Whole(1), Whole(45)}
      [] p = "Leakage Rate" -> {Undefined, Whole(0), Whole(7), Str("7")}
      [] p = "Equipment Life" -> {Undefined, Whole(0), Whole(20)}
      [] p = "Equipment Cooling Capacity" -> {Undefined, Whole(0), Whole(120)}
      [] p = "Equipment Quantity" -> {Undefined, Whole(0), Whole(3)}
      [] p = "Leakage Test Results" -> {Undefined, Str("Pass")}
      [] OTHER -> {Undefined, Str("Certified")}]

\* the object literal `given`, read over the keys `keys`
ObjectOver(keys, given) == [p \in keys |-> Get(given, p)]

eaCr6_option1_pass ==
  ObjectOver(EACr6Keys,
    ("Refrigerant Used" :> Str("R-1234ze(E)")) @@ ("ODP" :> Whole(0))
    @@ ("GWP" :> Whole(4)) @@ ("Confirmation Statement" :> Str("Yes"))
    @@ ("Equipment Type" :> Str("Heat Pump")) @@ ("Equipment Quantity" :> Whole(2))
    @@ ("Equipment Cooling Capacity" :> Whole(50)))

eaCr6_option2_pass ==
  ObjectOver(EACr6Keys,
    ("Refrigerant Used" :> Str("R-32")) @@ ("ODP" :> Whole(0))
    @@ ("GWP" :> Whole(675)) @@ ("Equipment Type" :> Str("VRF System"))
    @@ ("Refrigerant charge" :> Whole(45)) @@ ("Leakage Rate" :> Whole(7))
    @@ ("Equipment Life" :> Whole(20)) @@ ("Equipment Cooling Capacity" :> Whole(120))
    @@ ("Equipment Quantity" :> Whole(3)))

eaCr6_fail ==
  ObjectOver(EACr6Keys,
    ("Refrigerant Used" :> Str("R-410A")) @@ ("ODP" :> Whole(0))
    @@ ("GWP" :> Whole(2088)) @@ ("Equipment Type" :> Str("Split System"))
    @@ ("Refrigerant charge" :> Whole(8)) @@ ("Leakage Rate" :> Whole(15))
    @@ ("Equipment Life" :> Whole(15)) @@ ("Equipment Cooling Capacity" :> Whole(25))
    @@ ("Equipment Quantity" :> Whole(10)))

EmptyMap(keys) == [p \in keys |-> Undefined]

EACr6Bases == {EmptyMap(EACr6Keys), eaCr6_option1_pass, eaCr6_option2_pass, eaCr6_fail}

\* the maps of S with at most k parameters overridden by values of `values`
IEQCr5Keys ==
  {"Compliance Path", "PMV", "PPD", "Operative Temperature Range",
   "Relative Humidity Range", "Air Speed", "Clothing Insulation", "Metabolic Rate",
   "Weather Data Source", "Total Individual Spaces", "Controlled Spaces",
   "Group Controls", "Thermostat Locations"}

\* the values each IEQCr5 parameter is drawn from
IEQCr5Values ==
  [p \in IEQCr5Keys |->
    CASE p = "PMV" -> {Undefined, Null, Str(""), Whole(0), Num(300), Num(500),
                       Num(-500), Num(800), Num(-600), Str("abc")}
      [] p = "PPD" -> {Undefined, Null, Str(""), Whole(0), Whole(7), Whole(10),
                       Whole(18), Str("7")}
      [] p = "Total Individual Spaces" ->
           {Undefined, Str(""), Whole(0), Whole(100), Whole(200), Whole(-5), Str("abc")}
      [] p = "Controlled Spaces" ->
           {Undefined, Whole(0), Whole(45), Whole(50), Whole(51), Whole(85), Whole(150)}
      [] OTHER -> {Undefined, Str(""), Str("Yes")}]

ieqCr5_pass ==
  ObjectOver(IEQCr5Keys,
    ("Compliance Path" :> Str("ASHRAE 55-2017")) @@ ("PMV" :> Num(300))
    @@ ("PPD" :> Whole(7)) @@ ("Operative Temperature Range" :> Str("68-76F"))
    @@ ("Relative Humidity Range" :> Str("30-60%")) @@ ("Air Speed" :> Str("0.15 m/s"))
    @@ ("Clothing Insulation" :> Str("0.5 clo")) @@ ("Metabolic Rate" :> Str("1.0 met"))
    @@ ("Weather Data Source" :> Str("TMY3")) @@ ("Total Individual Spaces" :> Whole(150))
    @@ ("Controlled Spaces" :> Whole(142))
    @@ ("Group Controls" :> Str("Yes - Multi-zone VAV system"))
    @@ ("Thermostat Locations" :> Str("Per architectural drawings")))

ieqCr5_fail_pmv ==
  ObjectOver(IEQCr5Keys,
    ("Compliance Path" :> Str("ASHRAE 55-2017")) @@ ("PMV" :> Num(800))
    @@ ("PPD" :> Whole(18)) @@ ("Operative Temperature Range" :> Str("65-80F"))
    @@ ("Relative Humidity Range" :> Str("20-70%")) @@ ("Air Speed" :> Str("0.1 m/s"))
    @@ ("Clothing Insulation" :> Str("0.6 clo")) @@ ("Metabolic Rate" :> Str("1.1 met"))
    @@ ("Weather Data Source" :> Str("TMY3")) @@ ("Total Individual Spaces" :> Whole(100))
    @@ ("Controlled Spaces" :> Whole(45)) @@ ("Group Controls" :> Str("Yes"))
    @@ ("Thermostat Locations" :> Str("Per drawings")))

ieqCr5_fail_spaces ==
  ObjectOver(IEQCr5Keys,
    ("Compliance Path" :> Str("ASHRAE 55-2017")) @@ ("PMV" :> Num(200))
    @@ ("PPD" :> Whole(6)) @@ ("Operative Temperature Range" :> Str("68-76F"))
    @@ ("Relative Humidity Range" :> Str("30-60%")) @@ ("Air Speed" :> Str("0.15 m/s"))
    @@ ("Clothing Insulation" :> Str("0.5 clo")) @@ ("Metabolic Rate" :> Str("1.0 met"))
    @@ ("Weather Data Source" :> Str("TMY3")) @@ ("Total Individual Spaces" :> Whole(200))
    @@ ("Controlled Spaces" :> Whole(85)) @@ ("Group Controls" :> Str("Yes"))
    @@ ("Thermostat Locations" :> Str("Per drawings")))

IEQCr5Bases == {EmptyMap(IEQCr5Keys), ieqCr5_pass, ieqCr5_fail_pmv, ieqCr5_fail_spaces}

\* every choice of a value of values[p] for each parameter p of the set S
RECURSIVE Choices(_, _)
Choices(S, values) ==
  IF S = {} THEN {<<>>}
  ELSE LET p == CHOOSE q \in S : TRUE
       IN {f @@ (p :> v) : f \in Choices(S \ {p}, values), v \in values[p]}

\* the sets of at most k parameters
AtMost(keys, k) == {S \in SUBSET keys : Cardinality(S) <= k}

\* the map `base` with the parameters of f overridden
Override(base, f) == [p \in DOMAIN base |-> IF p \in DOMAIN f THEN f[p] ELSE base[p]]

\* d is a base map with at most MaxEdits parameters overridden
IsInput(d, bases, values) ==
  \E base \in bases : \E S \in AtMost(DOMAIN values, MaxEdits) :
    \E f \in Choices(S, values) : d = Override(base, f)

----------------------------------------------------------------------------
(* Specifications of the evaluators                                        *)

NoResult == [none |-> "no call yet"]
NoDocs == <<>>

InitEACr6 ==
  /\ creditId = "EACr6"
  /\ IsInput(data, EACr6Bases, EACr6Values)
  /\ units \in UnitSystems
  /\ result = NoResult
  /\ pc = "input"
  /\ docs = NoDocs /\ options = NoResult /\ cons = NoResult

\* ruleEngine.assessCredit(creditId, data, units) of LEEDRules.js
AssessCredit ==
  /\ pc = "input"
  /\ result' = assessCredit(creditId, data, units)
  /\ pc' = "assessCredit"
  /\ UNCHANGED <<data, units, creditId, docs, options, cons>>

\* ruleEngine.evaluateCredit(creditId, extractedData, unitSystem) of part_001
EvaluateCredit ==
  /\ pc = "input"
  /\ result' = evaluateCredit(creditId, data, units)
  /\ pc' = "evaluateCredit"
  /\ UNCHANGED <<data, units, creditId, docs, options, cons>>

NextEvaluate == AssessCredit \/ EvaluateCredit

SpecEACr6 == InitEACr6 /\ [][NextEvaluate]_vars

InitIEQCr5 ==
  /\ creditId = "IEQCr5"
  /\ IsInput(data, IEQCr5Bases, IEQCr5Values)
  /\ units \in UnitSystems
  /\ result = NoResult
  /\ pc = "input"
  /\ docs = NoDocs /\ options = NoResult /\ cons = NoResult

SpecIEQCr5 == InitIEQCr5 /\ [][NextEvaluate]_vars

\* the credits that only RuleEngine evaluates
OtherCredits == {"WECr1", "EACr1", "SSCr1", "MRCr1", "IEQCr1"}

\* the values each parameter of the other credits is drawn from
CreditValues ==
  LET Quantities ==
        {Undefined, Str("abc"), Str("7"), Whole(0), Whole(-4), Whole(46), Whole(60),
         Whole(70), Whole(90), Whole(94), Whole(100), Whole(200)}
      Percentages == {Undefined, Str("abc"), Whole(0), Whole(10), Whole(49), Whole(50)}
  IN
  [c \in OtherCredits |->
    CASE c = "WECr1" ->
           [p \in {"Baseline Water Use", "Design Water Use"} |-> Quantities]
      [] c = "EACr1" ->
           [p \in {"Baseline Energy Use", "Design Energy Use", "Building Type"} |->
              IF p = "Building Type"
                THEN {Undefined, Str(""), Str("new_buildings"),
                      Str("existing_buildings"), Str("renovation"), Whole(5)}
              ELSE Quantities]
      [] c = "SSCr1" ->
           [p \in {requiredDocs[i] : i \in DOMAIN requiredDocs} |->
              {Undefined, Str(""), Str("Yes")}]
      [] c = "MRCr1" ->
           [p \in {"Building Reuse Percentage", "Structural Elements Reuse",
                   "Enclosure Materials Reuse", "Life Cycle Assessment Improvement"} |->
              Percentages]
      [] OTHER ->
           [p \in {"Outdoor Air Delivery Monitoring", "Increased Ventilation",
                   "Air Filtration"} |->
              {Undefined, Str(""), Str("Yes"), Whole(1),
               Str("30_percent_above_standard"), Str("MERV_13_or_higher")}]]

\* every parameter map that takes each parameter's value from values
Maps(values) ==
  {f \in [DOMAIN values -> UNION {values[p] : p \in DOMAIN values}] :
     \A p \in DOMAIN values : f[p] \in values[p]}

InitCredits ==
  /\ creditId \in OtherCredits
  /\ data \in Maps(CreditValues[creditId])
  /\ units \in UnitSystems
  /\ result = NoResult
  /\ pc = "input"
  /\ docs = NoDocs /\ options = NoResult /\ cons = NoResult

\* every credit of the two engines
SpecCredits == (InitEACr6 \/ InitIEQCr5 \/ InitCredits) /\ [][NextEvaluate]_vars
----------------------------------------------------------------------------
(* Consolidation of multi-document data                                    *)

MaxDocs == 3

LabelA == <<"manufacturer_datasheet">>
LabelB == <<"hvac", "equipment_schedule">>
LabelC == <<"site", "Notes">>
LabelD == <<"commissioning", "Report">>
UnknownLabel == <<"unknown">>
DocLabels == {LabelA, LabelB, LabelC, LabelD}

ParameterNames == {"GWP", "ODP"}

\* docData[creditId] for a document: absent, or Parameters and Values
NoCreditData == [hasCredit |-> FALSE, Parameters |-> <<>>, Values |-> <<>>]

CreditData(parameters, values) ==
  [hasCredit |-> TRUE, Parameters |-> parameters, Values |-> values]

DocContents ==
  { NoCreditData,
    CreditData(<<"GWP">>, "GWP" :> Whole(675)),
    CreditData(<<"GWP", "ODP">>, ("GWP" :> Whole(700)) @@ ("ODP" :> Whole(0))),
    CreditData(<<"GWP">>, "GWP" :> Str("")),
    CreditData(<<"GWP", "GWP">>, "GWP" :> Whole(675)),
    CreditData(<<"ODP">>, ("GWP" :> Whole(675)) @@ ("ODP" :> Whole(0))) }

Document(label, content) ==
  [name |-> label, hasCredit |-> content.hasCredit,
   Parameters |-> content.Parameters, Values |-> content.Values]

\* multiDocData: its entries in key order, the keys distinct
MultiDocData ==
  UNION { { documents \in [1..n -> { Document(label, content) :
                                       label \in DocLabels, content \in DocContents }] :
              \A i, j \in 1..n : i # j => documents[i].name # documents[j].name }
          : n \in 0..MaxDocs }

\* the options object after the defaults of consolidateData
Options(conflictResolution, customPriorities, manualResolutions) ==
  [conflictResolution |-> conflictResolution,
   customPriorities |-> customPriorities,
   manualResolutions |-> manualResolutions]

OptionChoices ==
  { Options("priority", <<>>, <<>>),
    Options("priority", <<[pattern |-> <<"Notes">>, priority |-> 20]>>, <<>>),
    Options("priority", <<[pattern |-> <<"manufacturer_datasheet">>, priority |-> 8]>>, <<>>),
    Options("latest", <<>>, <<>>),
    Options("manual", <<>>, <<>>),
    Options("manual", <<>>, "GWP" :> LabelA),
    Options("manual", <<>>, ("GWP" :> UnknownLabel) @@ ("ODP" :> LabelB)),
    Options("first", <<>>, <<>>) }

InitCons ==
  /\ creditId = "EACr6"
  /\ docs \in MultiDocData
  /\ options = NoResult
  /\ cons = NoResult
  /\ pc = "input"
  /\ data = EmptyObject /\ units = "IP" /\ result = NoResult

ConsolidateData ==
  /\ pc = "input"
  /\ \E opts \in OptionChoices :
       /\ options' = opts
       /\ cons' = consolidateData(docs, opts)
  /\ pc' = "consolidateData"
  /\ UNCHANGED <<data, units, result, creditId, docs>>

NextCons == ConsolidateData

SpecCons == InitCons /\ [][NextCons]_vars

----------------------------------------------------------------------------
(* Claims about the evaluators                                             *)

Assessed == pc = "assessCredit" /\ Returned(result)
Evaluated == pc = "evaluateCredit"

\* C1: a result that awards points (awarded in LEEDRuleEngine.assessCredit,
\* awardedPoints > 0 in RuleEngine.evaluateCredit) has an empty gaps list and an
\* empty nonCompliant list.
C1_AwardedHasNoGaps ==
  /\ Assessed /\ result.awarded => result.gaps = <<>> /\ result.nonCompliant = <<>>
  /\ Evaluated /\ result.awardedPoints > 0 =>
       result.gaps = <<>> /\ result.nonCompliant = <<>>

\* every option-1 condition holds of the map d, its numbers given as numbers
Option1Satisfied(d) ==
  /\ ~IsEmpty(d["Refrigerant Used"])
  /\ ~IsEmpty(d["Confirmation Statement"])
  /\ d["ODP"] = Whole(0)
  /\ d["GWP"].t = "number" /\ d["GWP"].n < 50 * 1000

\* C2: when every option-1 condition is satisfied (Refrigerant Used and
\* Confirmation Statement present, ODP = 0, GWP < 50, GWP = 49.999 included),
\* assessCredit awards the full point via option 1 and does not report option 2.
C2_Option1Awards ==
  pc = "assessCredit" /\ Option1Satisfied(data) =>
    /\ Returned(result)
    /\ result.awarded /\ result.points = 1 /\ result.option = 1

C2_Witness ==
  /\ pc = "assessCredit" /\ Option1Satisfied(data)
  /\ data["GWP"] = Num(49999)
  /\ result.awarded /\ result.option = 1

\* the members of the sequence sq
Range(sq) == {sq[i] : i \in DOMAIN sq}

\* C3: when no EACr6 option succeeds, the returned gaps and nonCompliant lists
\* are exactly those of option 2, the last evaluated option, and hold nothing
\* recorded while evaluating option 1.
C3_LastOptionOnly ==
  /\ Assessed /\ ~result.awarded =>
       /\ result.gaps = assessOption2(data, units).gaps
       /\ result.nonCompliant = assessOption2(data, units).nonCompliant
       /\ Range(result.gaps) \cap {"Refrigerant Used", "ODP Value", "GWP Value",
                                   "Confirmation Statement"} = {}
  /\ Evaluated /\ result.awardedPoints = 0 =>
       /\ result.gaps = checkEACr6Option2(data, units).gaps
       /\ result.nonCompliant = checkEACr6Option2(data, units).nonCompliant
       /\ Range(result.gaps) \cap {"Refrigerant Used", "Confirmation Statement"} = {}

\* the threshold the claim names for a unit system
ClaimedThreshold == IF units = "IP" THEN 100 ELSE 13

\* option 2 of EACr6RuleSet has every parameter it requires
Option2Complete(d) ==
  /\ \A i \in DOMAIN EACr6RequiredParams : ~IsEmpty(d[EACr6RequiredParams[i]])
  /\ d["Equipment Type"].s \in RefrigerationTypes =>
       /\ ~IsEmpty(d["Leakage Test Results"])
       /\ ~IsEmpty(d["Greenchill Certification Status"])

\* checkEACr6Option2 of RuleEngine has every parameter it requires
RuleEngineOption2Complete(d) ==
  \A i \in DOMAIN RuleEngineRequiredParams : Truthy(d[RuleEngineRequiredParams[i]])

C4_PartsStrategy ==
  /\ Assessed =>
       LET p1 == result.parts.part1
           p2 == result.parts.part2
       IN /\ result.gaps = p1.gaps \o p2.gaps
          /\ result.nonCompliant = p1.nonCompliant \o p2.nonCompliant
          /\ result.awarded <=> /\ p1.compliant /\ p2.compliant
                                /\ result.gaps = <<>> /\ result.nonCompliant = <<>>
          /\ result.points = IF result.awarded THEN 1 ELSE 0
          /\ IsEmpty(data["Thermostat Locations"]) =>
               "Thermostat Locations" \in Range(result.gaps)
          /\ IsEmpty(data["Compliance Path"]) => result.gaps[1] = "Compliance Path"
  /\ Evaluated =>
       LET p1 == checkIEQCr5Part1(data)
           p2 == checkIEQCr5Part2(data)
       IN /\ result.gaps = p1.gaps \o p2.gaps
          /\ result.nonCompliant = p1.nonCompliant \o p2.nonCompliant
          /\ result.awardedPoints = 1 <=>
               /\ p1.compliant /\ p2.compliant
               /\ result.gaps = <<>> /\ result.nonCompliant = <<>>
          /\ result.awardedPoints \in {0, 1}
          /\ IsEmpty(data["Thermostat Locations"]) =>
               "Thermostat Locations markup" \in Range(result.gaps)

\* part 1 fails, and part 2 still contributes its gap and its non-compliance
C4_Witness ==
  /\ Assessed
  /\ ~result.parts.part1.compliant
  /\ result.parts.part1.gaps # <<>> /\ result.parts.part1.nonCompliant # <<>>
  /\ result.parts.part2.gaps = <<"Thermostat Locations">>
  /\ result.parts.part2.nonCompliant # <<>>
  /\ result.gaps = result.parts.part1.gaps \o <<"Thermostat Locations">>

----------------------------------------------------------------------------
(* Claims about the consolidator                                           *)

Consolidated == pc = "consolidateData"

\* document i of multiDocData declares parameter p and gives it a non-empty value
Supplies(i, p) ==
  /\ docs[i].hasCredit
  /\ p \in Range(docs[i].Parameters)
  /\ ~IsEmpty(Get(docs[i].Values, p))

Suppliers(p) == { i \in DOMAIN docs : Supplies(i, p) }

Supplied == { p \in ParameterNames : Suppliers(p) # {} }

Min(S) == CHOOSE i \in S : \A j \in S : i <= j
Max(S) == CHOOSE i \in S : \A j \in S : i >= j

Candidate(i, p) == [document |-> docs[i].name, value |-> Get(docs[i].Values, p)]

\* the position in multiDocData of the document a candidate names
PositionOf(label) == CHOOSE i \in DOMAIN docs : docs[i].name = label

LogEntries(p) ==
  { k \in DOMAIN cons.resolutionLog : cons.resolutionLog[k].parameter = p }

\* C6: the first non-empty value of a parameter is recorded with its source;
\* every later non-empty value of it from another document is in the
\* parameter's entry of `conflicts`, identical values included; the entry starts
\* with the first-recorded (document, value), every candidate in it is a value a
\* document supplied, and the candidates follow document-processing order.
C6_FirstRecordedThenConflicts ==
  Consolidated =>
    \A p \in Supplied :
      LET first == Min(Suppliers(p))
          later == Suppliers(p) \ {first}
      IN /\ p \in DOMAIN cons.data
         /\ later = {} =>
              /\ cons.data[p] = Candidate(first, p).value
              /\ cons.sources[p] = docs[first].name
         /\ later # {} =>
              /\ p \in DOMAIN cons.conflicts
              /\ cons.conflicts[p][1] = Candidate(first, p)
              /\ \A i \in later :
                   \E k \in 2..Len(cons.conflicts[p]) :
                     cons.conflicts[p][k] = Candidate(i, p)
              /\ \A k \in DOMAIN cons.conflicts[p] :
                   \E i \in Suppliers(p) : cons.conflicts[p][k] = Candidate(i, p)
              /\ \A k, m \in DOMAIN cons.conflicts[p] :
                   k < m => PositionOf(cons.conflicts[p][k].document)
                              <= PositionOf(cons.conflicts[p][m].document)

\* two documents supply the same value for GWP and a third a different one
C6_Witness ==
  /\ Consolidated
  /\ Len(docs) = 3
  /\ Suppliers("GWP") = {1, 2, 3}
  /\ Get(docs[1].Values, "GWP") = Get(docs[2].Values, "GWP")
  /\ Get(docs[3].Values, "GWP") # Get(docs[1].Values, "GWP")
  /\ Len(cons.conflicts["GWP"]) = 3

\* C7: a parameter has an entry in `conflicts` only if two or more distinct
\* documents supply a non-empty value for it.
C7_ConflictNeedsTwoDocuments ==
  Consolidated =>
    \A p \in DOMAIN cons.conflicts : Cardinality(Suppliers(p)) >= 2

\* the candidates' priority scores under the options of the call
Score(candidate) ==
  getDocumentPriority(candidate.document,
                      Spread(priorityRules, options.customPriorities))

\* the earliest candidate among those of the highest score
Winner(conflictList) ==
  Min({ k \in DOMAIN conflictList :
          \A m \in DOMAIN conflictList :
            Score(conflictList[k]) >= Score(conflictList[m]) })

\* C8: under the priority policy every conflicted parameter takes the value and
\* source of the candidate with the highest priority score, the earliest one
\* on a tie, and the resolution log has a priority-based entry for it.
C8_PriorityPolicy ==
  Consolidated /\ options.conflictResolution = "priority" =>
    \A p \in DOMAIN cons.conflicts :
      LET won == cons.conflicts[p][Winner(cons.conflicts[p])]
      IN /\ cons.data[p] = won.value
         /\ cons.sources[p] = won.document
         /\ \E k \in LogEntries(p) :
              /\ cons.resolutionLog[k].method = "priority-based"
              /\ cons.resolutionLog[k].resolvedValue = won.value
              /\ cons.resolutionLog[k].resolvedSource = won.document

\* B: GWP=700 arrives before A: GWP=675 and A ranks higher
C8_Witness ==
  /\ Consolidated /\ options.conflictResolution = "priority"
  /\ "GWP" \in DOMAIN cons.conflicts
  /\ cons.conflicts["GWP"][1] = [document |-> LabelB, value |-> Whole(700)]
  /\ Score(cons.conflicts["GWP"][1]) < Score(cons.conflicts["GWP"][2])
  /\ cons.data["GWP"] = Whole(675) /\ cons.sources["GWP"] = LabelA

\* C9: under the latest policy every conflicted parameter takes the value and
\* source of the last document, in processing order, that supplies it.
C9_LatestPolicy ==
  Consolidated /\ options.conflictResolution = "latest" =>
    \A p \in DOMAIN cons.conflicts :
      LET last == Max(Suppliers(p))
      IN /\ cons.data[p] = Candidate(last, p).value
         /\ cons.sources[p] = docs[last].name

\* A: GWP=675 then B: GWP=700 gives GWP=700 from B
C9_Witness ==
  /\ Consolidated /\ options.conflictResolution = "latest"
  /\ Len(docs) >= 2
  /\ docs[1].name = LabelA /\ Supplies(1, "GWP")
  /\ docs[2].name = LabelB /\ Supplies(2, "GWP")
  /\ Suppliers("GWP") = {1, 2}
  /\ cons.conflicts["GWP"] = <<[document |-> LabelA, value |-> Whole(675)],
                               [document |-> LabelB, value |-> Whole(700)]>>
  /\ cons.data["GWP"] = Whole(700) /\ cons.sources["GWP"] = LabelB

\* the manual choice for p names none of p's candidates, or there is no choice
NoUsableChoice(p) ==
  \/ p \notin DOMAIN options.manualResolutions
  \/ \A k \in DOMAIN cons.conflicts[p] :
       cons.conflicts[p][k].document # options.manualResolutions[p]

\* C10: under the manual policy a conflicted parameter without a usable choice
\* keeps the value and source first recorded and has no resolution log entry.
C10_ManualUnresolved ==
  Consolidated /\ options.conflictResolution = "manual" =>
    \A p \in DOMAIN cons.conflicts :
      NoUsableChoice(p) =>
        LET first == Min(Suppliers(p))
        IN /\ cons.data[p] = Candidate(first, p).value
           /\ cons.sources[p] = docs[first].name
           /\ LogEntries(p) = {}

\* GWP's choice names a document that is no candidate while ODP's choice is
\* honoured, and the first-recorded GWP differs from a later candidate
C10_Witness ==
  /\ Consolidated /\ options.conflictResolution = "manual"
  /\ "GWP" \in DOMAIN cons.conflicts
  /\ "GWP" \in DOMAIN options.manualResolutions
  /\ NoUsableChoice("GWP")
  /\ \E k \in DOMAIN cons.conflicts["GWP"] :
       cons.conflicts["GWP"][k].value # cons.data["GWP"]
  /\ "ODP" \in DOMAIN cons.conflicts
  /\ LogEntries("ODP") # {}
  /\ LogEntries("GWP") = {}

\* C11: whatever the policy, every parameter some document declares with a
\* non-empty value has a non-empty consolidated value; under a strategy name
\* that matches no policy each conflicted parameter keeps its first-seen value
\* and source and is logged with method first-occurrence.
C11_NeverDropsAValue ==
  Consolidated =>
    /\ \A p \in Supplied : p \in DOMAIN cons.data /\ ~IsEmpty(cons.data[p])
    /\ options.conflictResolution \notin {"priority", "latest", "manual"} =>
         \A p \in DOMAIN cons.conflicts :
           LET first == Min(Suppliers(p))
           IN /\ cons.data[p] = Candidate(first, p).value
              /\ cons.sources[p] = docs[first].name
              /\ \E k \in LogEntries(p) :
                   /\ cons.resolutionLog[k].method = "first-occurrence"
                   /\ cons.resolutionLog[k].resolvedValue = cons.data[p]
                   /\ cons.resolutionLog[k].resolvedSource = cons.sources[p]

\* an unknown strategy, and a later candidate of GWP differs from the first
C11_Witness ==
  /\ Consolidated /\ options.conflictResolution = "first"
  /\ "GWP" \in DOMAIN cons.conflicts
  /\ \E k \in DOMAIN cons.conflicts["GWP"] :
       cons.conflicts["GWP"][k].value # cons.conflicts["GWP"][1].value
  /\ cons.data["GWP"] = cons.conflicts["GWP"][1].value

----------------------------------------------------------------------------
(* CalculationEngine (part_001) and the calculations as functions          *)

\* a function returned null
ReturnedNull == [none |-> "null"]

\* CalculationEngine.calculateThermalControlPercentage
calculateThermalControlPercentage(totalSpaces, controlledSpaces) ==
  IF ~Truthy(totalSpaces) \/ ~Truthy(controlledSpaces) THEN ReturnedNull
  ELSE [value |-> Mul(Div(ToNumber(controlledSpaces), ToNumber(totalSpaces)),
                      Int2X(100))]

\* ((baseline - design) / baseline) * 100 behind the guard of the two reductions
linearReduction(baseline, design) ==
  IF ~Truthy(baseline) \/ ~Truthy(design) THEN ReturnedNull
  ELSE [value |-> Mul(Div(Sub(ToNumber(baseline), ToNumber(design)),
                          ToNumber(baseline)),
                      Int2X(100))]

\* CalculationEngine.calculateEnergyPerformance; buildingType is not read
calculateEnergyPerformance(baseline, design) == linearReduction(baseline, design)

\* CalculationEngine.calculateWaterReduction
calculateWaterReduction(baseline, design) == linearReduction(baseline, design)

\* how many entries a threshold table other than the two of EACr1 may have
MaxEntries == 3

TableEntries ==
  { [threshold |-> 6, points |-> 1], [threshold |-> 10, points |-> 3],
    [threshold |-> 14, points |-> 5], [threshold |-> 20, points |-> 8] }

\* the threshold tables: those of EACr1, and the entries above in any order
ThresholdTables ==
  {new_buildings, existing_buildings}
  \cup UNION { { t \in [1..n -> TableEntries] : \A i, j \in 1..n : i # j => t[i] # t[j] }
               : n \in 0..MaxEntries }

\* the values given as arguments to the calculations
ArgValues ==
  { Undefined, Null, Str("abc"), Str("7"), Whole(0), Whole(-4), Num(500),
    Whole(12), Whole(85), Whole(100), Whole(200) }

\* the arguments of a call: `data` holds them in the calculations' specification
InitCalc ==
  /\ creditId = "none"
  /\ data \in [a : ArgValues, b : ArgValues, thresholds : ThresholdTables]
  /\ units = "IP"
  /\ result = NoResult
  /\ pc = "input"
  /\ docs = NoDocs /\ options = NoResult /\ cons = NoResult

\* calculationModule.calculateSpacePercentage(a, b) of LEEDRules.js
CalculateSpacePercentage ==
  /\ pc = "input"
  /\ result' = calculateSpacePercentage(data.a, data.b)
  /\ pc' = "calculateSpacePercentage"
  /\ UNCHANGED <<data, units, creditId, docs, options, cons>>

\* CalculationEngine.calculateThermalControlPercentage(a, b) of part_001
CalculateThermalControlPercentage ==
  /\ pc = "input"
  /\ result' = calculateThermalControlPercentage(data.a, data.b)
  /\ pc' = "calculateThermalControlPercentage"
  /\ UNCHANGED <<data, units, creditId, docs, options, cons>>

\* CalculationEngine.calculateEnergyPerformance(a, b) of part_001
CalculateEnergyPerformance ==
  /\ pc = "input"
  /\ result' = calculateEnergyPerformance(data.a, data.b)
  /\ pc' = "calculateEnergyPerformance"
  /\ UNCHANGED <<data, units, creditId, docs, options, cons>>

\* CalculationEngine.calculateWaterReduction(a, b) of part_001
CalculateWaterReduction ==
  /\ pc = "input"
  /\ result' = calculateWaterReduction(data.a, data.b)
  /\ pc' = "calculateWaterReduction"
  /\ UNCHANGED <<data, units, creditId, docs, options, cons>>

\* the point lookup of evaluateEACr1 for the improvement a and a threshold table
TieredPoints ==
  /\ pc = "input"
  /\ result' = [points |-> tieredPoints(ParseFloat(data.a), data.thresholds, 0)]
  /\ pc' = "tieredPoints"
  /\ UNCHANGED <<data, units, creditId, docs, options, cons>>

NextCalc ==
  \/ CalculateSpacePercentage
  \/ CalculateThermalControlPercentage
  \/ CalculateEnergyPerformance
  \/ CalculateWaterReduction
  \/ TieredPoints

SpecCalc == InitCalc /\ [][NextCalc]_vars

----------------------------------------------------------------------------
(* Claims about the calculations                                           *)

IsNumber(v) == v.t = "number"

Failed(r) == "exception" \in DOMAIN r

\* C12: the thermal-control percentage of a total that is a number <= 0 is an
\* error, and for a total > 0 and a number of controlled spaces it is
\* controlled / total * 100, whatever its size.
C12_ThermalControlPercentage ==
  pc \in {"calculateSpacePercentage", "calculateThermalControlPercentage"}
  /\ IsNumber(data.a) /\ IsNumber(data.b) =>
    IF data.a.n <= 0 THEN Failed(result)
    ELSE /\ "value" \in DOMAIN result
         /\ result.value = Frac(data.b.n * 100, data.a.n)

\* C13: the energy and water reductions of a non-zero number baseline and a
\* number design, zero included, are (baseline - design) / baseline * 100, and
\* the calculation fails when the baseline is zero, undefined or no number.
C13_LinearReduction ==
  pc \in {"calculateEnergyPerformance", "calculateWaterReduction"} =>
    /\ IsNumber(data.a) /\ data.a.n # 0 /\ IsNumber(data.b) =>
         /\ "value" \in DOMAIN result
         /\ result.value = Frac((data.a.n - data.b.n) * 100, data.a.n)
    /\ \/ (IsNumber(data.a) /\ data.a.n = 0)
       \/ data.a \in {Undefined, Null, Str("abc")}
       => Failed(result)

\* the entries of the table whose threshold the percentage reaches
Qualifying(percentage, thresholds) ==
  { i \in DOMAIN thresholds : Le(Int2X(thresholds[i].threshold), percentage) }

\* C14: the tiered point lookup returns the maximum points among the entries
\* whose threshold is <= the percentage, 0 when there is none, whatever the
\* order of the table's entries.
C14_TieredLookupIsMaximum ==
  pc = "tieredPoints" =>
    LET q == Qualifying(ParseFloat(data.a), data.thresholds)
    IN IF q = {} THEN result.points = 0
       ELSE /\ \E i \in q : result.points = data.thresholds[i].points
            /\ \A i \in q : result.points >= data.thresholds[i].points

(* Claims about the thresholds of the space controls *)

PositiveCount(v) == IsNumber(v) /\ v.n > 0

AtMostHalf(total, controlled) ==
  /\ PositiveCount(total)
  /\ PositiveCount(controlled)
  /\ controlled.n * 100 <= 50 * total.n

\* C15: part 2 of IEQCr5 is compliant only above 50 percent: whenever the
\* controlled spaces are at most half of the total (42.5 percent, exactly 50
\* percent), part 2 records a non-compliance and the credit is not awarded,
\* in LEEDRuleEngine.assessCredit and in RuleEngine.evaluateCredit alike.
C15_Part2NeedsMoreThanHalf ==
  (creditId = "IEQCr5"
     /\ AtMostHalf(Get(data, "Total Individual Spaces"), Get(data, "Controlled Spaces")))
  => /\ Assessed =>
          /\ result.parts.part2.nonCompliant # <<>>
          /\ ~result.awarded
     /\ Evaluated =>
          /\ checkIEQCr5Part2(data).nonCompliant # <<>>
          /\ result.awardedPoints = 0

(* Claims about failures and the status of an evaluation *)

\* C16: an evaluation of a known credit always returns a result and never
\* throws, whatever the parameter map: a failure while reading a parameter or
\* inside a calculation becomes a message of the result.
C16_NeverThrows ==
  pc \in {"assessCredit", "evaluateCredit"} => Returned(result)

Statuses == {"compliant", "non_compliant", "gaps", "error"}

\* the parameters of a map that carry a value
ValuesGiven(d) == {p \in DOMAIN d : ~IsEmpty(d[p])}

\* C17: RuleEngine.evaluateCredit ends in one of the statuses compliant,
\* non_compliant, gaps and error, never in pending; it answers non_compliant
\* only when a supplied value fails a threshold or a condition, so a map that
\* supplies no value at all, whose only defect is missing data, ends in gaps.
C17_StatusOfEvaluation ==
  Evaluated =>
    /\ result.status \in Statuses
    /\ result.status = "non_compliant" => ValuesGiven(data) # {}
    /\ ValuesGiven(data) = {} => result.status = "gaps"

\* C18: the points an evaluation awards lie between 0 and the credit's
\* maxPoints, for every credit and every parameter map, in the result of
\* LEEDRuleEngine.assessCredit and in the result of RuleEngine.evaluateCredit.
C18_PointsWithinMaximum ==
  /\ Assessed =>
       /\ result.points \in 0..result.maxPoints
       /\ result.maxPoints = RULE_DEFINITIONS[creditId].maxPoints
  /\ Evaluated =>
       /\ result.awardedPoints \in 0..result.maxPoints
       /\ result.maxPoints = RULE_DEFINITIONS[creditId].maxPoints

\* three strategies of IEQCr1 are met and the two points of the credit awarded
C18_Witness ==
  /\ Evaluated
  /\ creditId = "IEQCr1"
  /\ IEQCr1Points(data) = 3
  /\ result.awardedPoints = 2
  /\ result.status = "compliant"

----------------------------------------------------------------------------
(* LEEDDataConsolidator.validateDataStructure (LEEDRules.js)               *)
(*                                                                         *)
(* Validation reads only the shape of the data: a document is null, a      *)
(* string or an object, and a credit entry of a document says what kind of *)
(* value its Parameters and its Values are.                                *)

\* docData[creditId]: absent, or an object with the kinds of its two properties
Absent == [present |-> FALSE, Parameters |-> "undefined", Values |-> "undefined"]
CreditEntry(parameters, values) ==
  [present |-> TRUE, Parameters |-> parameters, Values |-> values]

\* a document that is an object, and a document that is null or a string
ObjectDocument(eacr6, ieqcr5) ==
  [kind |-> "object", credits |-> [EACr6 |-> eacr6, IEQCr5 |-> ieqcr5]]
NotADocument(kind) == [kind |-> kind, credits |-> [EACr6 |-> Absent, IEQCr5 |-> Absent]]

DocShapes ==
  { NotADocument("null"),
    NotADocument("string"),
    ObjectDocument(Absent, Absent),
    ObjectDocument(CreditEntry("array", "object"), Absent),
    ObjectDocument(CreditEntry("undefined", "object"), Absent),
    ObjectDocument(CreditEntry("string", "object"), Absent),
    ObjectDocument(CreditEntry("array", "undefined"), Absent),
    ObjectDocument(CreditEntry("array", "object"), CreditEntry("array", "null")),
    ObjectDocument(Absent, CreditEntry("array", "object")) }

\* the keys of multiDocData, in order
ShapeLabels == <<LabelA, LabelB, LabelC, LabelD>>

\* multiDocData for validation: null, or documents under distinct keys
ShapedData ==
  {[kind |-> "null", documents |-> <<>>]} \cup
  UNION { { [kind |-> "object",
             documents |-> [i \in 1..n |->
                              [name |-> ShapeLabels[i], kind |-> shapes[i].kind,
                               credits |-> shapes[i].credits]]] :
              shapes \in [1..n -> DocShapes] }
          : n \in 0..MaxDocs }

ExpectedCredits == {<<>>, <<"EACr6">>, <<"IEQCr5">>, <<"EACr6", "IEQCr5">>}

\* !creditData.Parameters || !Array.isArray(creditData.Parameters)
BadParameters(entry) == entry.Parameters # "array"

\* !creditData.Values || typeof creditData.Values !== 'object'
BadValues(entry) == entry.Values # "object"

\* !docData || typeof docData !== 'object'
InvalidStructure(doc) == doc.kind # "object"

\* the warnings one document adds, credit by credit
RECURSIVE CreditWarnings(_, _)
CreditWarnings(doc, expectedCredits) ==
  IF expectedCredits = <<>> THEN <<>>
  ELSE LET c == Head(expectedCredits)
       IN (IF doc.credits[c].present
             THEN (IF BadParameters(doc.credits[c])
                     THEN <<[document |-> doc.name, credit |-> c,
                             warning |-> "Missing or invalid Parameters array"]>>
                   ELSE <<>>)
                  \o (IF BadValues(doc.credits[c])
                        THEN <<[document |-> doc.name, credit |-> c,
                                warning |-> "Missing or invalid Values object"]>>
                      ELSE <<>>)
           ELSE <<>>)
          \o CreditWarnings(doc, Tail(expectedCredits))

\* Object.entries(multiDocData).forEach: the validation after each document
RECURSIVE ValidateEach(_, _, _)
ValidateEach(documents, expectedCredits, validation) ==
  IF documents = <<>> THEN validation
  ELSE LET doc == Head(documents)
       IN ValidateEach(Tail(documents), expectedCredits,
            IF InvalidStructure(doc)
              THEN [validation EXCEPT
                      !.errors = Append(@, [document |-> doc.name,
                                            error |-> "Invalid structure"]),
                      !.valid = FALSE]
            ELSE [validation EXCEPT
                    !.warnings = @ \o CreditWarnings(doc, expectedCredits),
                    !.creditCoverage =
                      [c \in {expectedCredits[k] : k \in DOMAIN expectedCredits} |->
                         IF doc.credits[c].present THEN Append(@[c], doc.name)
                         ELSE @[c]]])

\* creditCoverage lists a credit once a document holds it; a credit no document
\* holds has no key, shown here as the empty list
validateDataStructure(multiDocData, expectedCredits) ==
  LET validation ==
        [valid |-> TRUE, errors |-> <<>>, warnings |-> <<>>, documentCount |-> 0,
         creditCoverage |->
           [c \in {expectedCredits[k] : k \in DOMAIN expectedCredits} |-> <<>>]]
  IN IF multiDocData.kind # "object"
       THEN [validation EXCEPT
               !.valid = FALSE,
               !.errors = <<[document |-> <<>>,
                             error |-> "Invalid data structure: expected object with document keys"]>>]
     ELSE ValidateEach(multiDocData.documents, expectedCredits,
                       [validation EXCEPT
                          !.documentCount = Len(multiDocData.documents)])

InitValidate ==
  /\ creditId = "none"
  /\ docs \in ShapedData
  /\ options = NoResult
  /\ result = NoResult
  /\ pc = "input"
  /\ data = EmptyObject /\ units = "IP" /\ cons = NoResult

\* dataConsolidator.validateDataStructure(multiDocumentData, expectedCredits)
ValidateDataStructure ==
  /\ pc = "input"
  /\ \E expectedCredits \in ExpectedCredits :
       /\ options' = expectedCredits
       /\ result' = validateDataStructure(docs, expectedCredits)
  /\ pc' = "validateDataStructure"
  /\ UNCHANGED <<data, units, creditId, docs, cons>>

NextValidate == ValidateDataStructure

SpecValidate == InitValidate /\ [][NextValidate]_vars

(* Claims about validation *)

Validated == pc = "validateDataStructure" /\ docs.kind = "object"

\* the document holds an expected credit whose Parameters is not an array or
\* whose Values is not an object
IncompleteCredit(doc, expectedCredits) ==
  /\ doc.kind = "object"
  /\ \E k \in DOMAIN expectedCredits :
       /\ doc.credits[expectedCredits[k]].present
       /\ \/ doc.credits[expectedCredits[k]].Parameters # "array"
          \/ doc.credits[expectedCredits[k]].Values # "object"

ReportedAsError(label) == \E k \in DOMAIN result.errors : result.errors[k].document = label

\* C19: validateDataStructure checks every document of the set: a document
\* that is not an object, or that supplies a credit without both a parameter
\* array and a values object, is reported as a structural error and makes
\* the set invalid, and the documents after it are validated all the same.
C19_MalformedIsAnError ==
  Validated =>
    /\ result.documentCount = Len(docs.documents)
    /\ \A i \in DOMAIN docs.documents :
         (docs.documents[i].kind # "object"
            \/ IncompleteCredit(docs.documents[i], options))
         => (~result.valid /\ ReportedAsError(docs.documents[i].name))

----------------------------------------------------------------------------
(* LEEDDataConsolidator.processAndAssess and generateRecommendations       *)

Recommendation(type, priority, subject) ==
  [type |-> type, priority |-> priority, subject |-> subject]

\* mutant: only the first applicable recommendation is made
generateRecommendations_firstOnly(assessmentResult, consolidationResult) ==
  IF Len(assessmentResult.gaps) > 0
    THEN <<Recommendation("missing_data", "high", assessmentResult.gaps)>>
  ELSE IF Len(assessmentResult.nonCompliant) > 0
    THEN <<Recommendation("non_compliance", "critical", assessmentResult.nonCompliant)>>
  ELSE IF Len(consolidationResult.conflictKeys) > 0
    THEN <<Recommendation("data_conflicts", "medium", consolidationResult.conflictKeys)>>
  ELSE IF assessmentResult.awarded
    THEN <<Recommendation("success", "info", <<assessmentResult.points>>)>>
  ELSE <<>>

\* the subject of a recommendation is its parameters, issues, conflicts or points
generateRecommendations(assessmentResult, consolidationResult) ==
  (IF Len(assessmentResult.gaps) > 0
     THEN <<Recommendation("missing_data", "high", assessmentResult.gaps)>>
   ELSE <<>>)
  \o (IF Len(assessmentResult.nonCompliant) > 0
        THEN <<Recommendation("non_compliance", "critical",
                              assessmentResult.nonCompliant)>>
      ELSE <<>>)
  \o (IF Len(consolidationResult.conflictKeys) > 0
        THEN <<Recommendation("data_conflicts", "medium",
                              consolidationResult.conflictKeys)>>
      ELSE <<>>)
  \o (IF assessmentResult.awarded
        THEN <<Recommendation("success", "info", <<assessmentResult.points>>)>>
      ELSE <<>>)

\* steps 3 and 4 of processAndAssess; a throw of assessCredit leaves it
Compiled(assessmentResult, consolidationResult) ==
  IF ~Returned(assessmentResult) THEN assessmentResult
  ELSE [assessment |-> assessmentResult,
        consolidation |->
          [parametersFound |-> consolidationResult.processingInfo.parametersFound,
           documentsProcessed |-> consolidationResult.processingInfo.documentsProcessed,
           conflictsDetected |-> consolidationResult.processingInfo.conflictsDetected,
           conflictsResolved |-> consolidationResult.processingInfo.conflictsResolved,
           dataSources |-> consolidationResult.sources],
        recommendations |->
          generateRecommendations(assessmentResult, consolidationResult)]

Assessment(id, consolidationResult, u) ==
  Compiled(assessCredit(id, consolidationResult.data, u), consolidationResult)

processAndAssess(multiDocData, id, opts, u) ==
  Assessment(id, consolidateData(multiDocData, opts), u)

\* a document that declares the parameters in the order given and holds given
Declaring(parameters, given) ==
  CreditData(parameters, [p \in {parameters[i] : i \in DOMAIN parameters} |-> given[p]])

Option2Parameters ==
  <<"Refrigerant Used", "ODP", "GWP", "Equipment Type", "Refrigerant charge",
    "Leakage Rate", "Equipment Life", "Equipment Cooling Capacity",
    "Equipment Quantity">>

ProcessContents ==
  { NoCreditData,
    Declaring(<<"Refrigerant Used", "ODP", "GWP", "Confirmation Statement">>,
              eaCr6_option1_pass),
    CreditData(<<"GWP">>, "GWP" :> Whole(675)),
    Declaring(Option2Parameters, eaCr6_option2_pass),
    Declaring(Option2Parameters, eaCr6_fail),
    CreditData(<<"Equipment Type">>, "Equipment Type" :> Whole(5)) }

ProcessData ==
  UNION { { [i \in 1..n |-> Document(ShapeLabels[i], contents[i])] :
              contents \in [1..n -> ProcessContents] }
          : n \in 0..MaxDocs }

InitProcess ==
  /\ creditId = "EACr6"
  /\ docs \in ProcessData
  /\ units \in UnitSystems
  /\ options = NoResult
  /\ cons = NoResult
  /\ result = NoResult
  /\ pc = "input"
  /\ data = EmptyObject

\* dataConsolidator.processAndAssess(multiDocumentData, 'EACr6', ruleEngine, options)
ProcessAndAssess ==
  /\ pc = "input"
  /\ \E opts \in OptionChoices :
       /\ options' = opts
       /\ cons' = consolidateData(docs, opts)
       /\ result' = processAndAssess(docs, creditId, opts, units)
  /\ pc' = "processAndAssess"
  /\ UNCHANGED <<data, units, creditId, docs>>

NextProcess == ProcessAndAssess

SpecProcess == InitProcess /\ [][NextProcess]_vars

(* Claims about the recommendations *)

Processed == pc = "processAndAssess" /\ Returned(result)

RecommendationTypes == <<"missing_data", "non_compliance", "data_conflicts", "success">>

Applicable(type) ==
  CASE type = "missing_data" -> result.assessment.gaps # <<>>
    [] type = "non_compliance" -> result.assessment.nonCompliant # <<>>
    [] type = "data_conflicts" -> DOMAIN cons.conflicts # {}
    [] OTHER -> result.assessment.awarded

\* C20: generateRecommendations emits one record for each applicable type and
\* none for an inapplicable one (missing_data for gaps, non_compliance for
\* non-compliances, data_conflicts for conflicts, success for an award), in
\* that order.
C20_OneRecordPerApplicableType ==
  Processed =>
    [i \in DOMAIN result.recommendations |-> result.recommendations[i].type]
      = SelectSeq(RecommendationTypes, Applicable)

\* conflicting documents whose resolution earns the credit: two records
C20_Witness ==
  /\ Processed
  /\ Len(result.recommendations) = 2
  /\ result.recommendations[1].type = "data_conflicts"
  /\ result.recommendations[2].type = "success"

(* Claims about the test samples and the thresholds of IEQCr5 *)

\* C21: the controller's sample of a standard refrigerant (R-32, ODP 0, GWP
\* 675, Refrigerant charge 45, Leakage Rate 7, Equipment Life 20, Equipment
\* Cooling Capacity 120, Equipment Quantity 3, units IP) fails option 1 only
\* on its GWP, is assessed via option 2 and is awarded 1 point.
C21_SampleEarnsOption2 ==
  (Assessed /\ creditId = "EACr6" /\ data = eaCr6_option2_pass /\ units = "IP")
  => /\ result.option = 2
     /\ result.awarded
     /\ result.points = 1

\* the thirteen parameters of IEQCr5 all carry a value
AllThirteenPresent(d) == \A p \in IEQCr5Keys : ~IsEmpty(Get(d, p))

\* PMV in [-0.5, 0.5], PPD below 10, more than half of the spaces controlled
ComfortMet(d) ==
  /\ IsNumber(d["PMV"]) /\ d["PMV"].n >= -500 /\ d["PMV"].n <= 500
  /\ IsNumber(d["PPD"]) /\ d["PPD"].n < 10000
  /\ PositiveCount(d["Total Individual Spaces"])
  /\ PositiveCount(d["Controlled Spaces"])
  /\ d["Controlled Spaces"].n * 100 > 50 * d["Total Individual Spaces"].n

ComfortViolated(d) ==
  \/ IsNumber(d["PMV"]) /\ (d["PMV"].n < -500 \/ d["PMV"].n > 500)
  \/ IsNumber(d["PPD"]) /\ d["PPD"].n >= 10000

\* C22: an IEQCr5 map with all thirteen parameters present, PMV within
\* [-0.5, 0.5] (0 included), PPD below 10 (0 included) and more than 50
\* percent of the spaces controlled is awarded 1 point with empty gaps and
\* nonCompliant; with PMV outside the range or PPD at 10 or more the credit
\* is not awarded and a non-compliance message is recorded.
C22_ComfortAwards ==
  creditId = "IEQCr5" =>
    /\ (AllThirteenPresent(data) /\ ComfortMet(data)) =>
         /\ Assessed => /\ result.awarded /\ result.points = 1
                        /\ result.gaps = <<>> /\ result.nonCompliant = <<>>
         /\ Evaluated => /\ result.awardedPoints = 1
                         /\ result.gaps = <<>> /\ result.nonCompliant = <<>>
    /\ ComfortViolated(data) =>
         /\ Assessed => ~result.awarded /\ result.nonCompliant # <<>>
         /\ Evaluated => result.awardedPoints = 0 /\ result.nonCompliant # <<>>

(* Claims about presence, conditions and numbers *)

Listed(p, list) == \E i \in DOMAIN list : list[i] = p

\* the parameters of IEQCr5 that are only checked for presence
IEQCr5PresenceParams ==
  {"Compliance Path", "Total Individual Spaces", "Controlled Spaces",
   "Group Controls", "Thermostat Locations"}
  \cup {EnvironmentalParams[i] : i \in DOMAIN EnvironmentalParams}

GapIffEmpty(params, gaps) ==
  \A p \in params : Listed(p, gaps) <=> IsEmpty(Get(data, p))

\* C23: every presence check reports a parameter as a gap exactly when its
\* value is undefined, null or the empty string; any other scalar, the number
\* 0 included, is present. Checked on the presence checks of IEQCr5, on the
\* required parameters of EACr6RuleSet.assessOption2 and on those of
\* RuleEngine.checkEACr6Option2.
C23_GapIffEmpty ==
  /\ (Assessed /\ creditId = "IEQCr5") => GapIffEmpty(IEQCr5PresenceParams, result.gaps)
  /\ (Assessed /\ creditId = "EACr6" /\ result.option = 2) =>
       GapIffEmpty({EACr6RequiredParams[i] : i \in DOMAIN EACr6RequiredParams},
                   result.gaps)
  /\ (Evaluated /\ creditId = "EACr6" /\ result.status = "non_compliant") =>
       GapIffEmpty({RuleEngineRequiredParams[i] : i \in DOMAIN RuleEngineRequiredParams},
                   result.gaps)

\* the message each engine records for a PMV or a PPD that fails its condition
FailureMessage(p) ==
  IF pc = "assessCredit"
    THEN (IF p = "PMV" THEN "PMV is outside acceptable range"
          ELSE "PPD is not less than 10%")
  ELSE (IF p = "PMV" THEN "PMV must be between -0.5 and 0.5"
        ELSE "PPD must be less than 10%")

\* the number given for p violates the range of PMV or the limit of PPD
ViolatesCondition(p) ==
  /\ IsNumber(data[p])
  /\ IF p = "PMV" THEN data[p].n < -500 \/ data[p].n > 500 ELSE data[p].n >= 10000

\* C24: for a Range or LessThan check (PMV and PPD of IEQCr5, neither of them
\* load-bearing): an empty parameter (undefined, null or the empty string)
\* yields a gap for it and no non-compliance message; a present value that
\* violates the condition yields the message and no gap.
C24_GapOrNonCompliance ==
  (creditId = "IEQCr5" /\ (Assessed \/ Evaluated)) =>
    \A p \in {"PMV", "PPD"} :
      /\ IsEmpty(data[p]) =>
           Listed(p, result.gaps) /\ ~Listed(FailureMessage(p), result.nonCompliant)
      /\ ViolatesCondition(p) =>
           Listed(FailureMessage(p), result.nonCompliant) /\ ~Listed(p, result.gaps)

\* the parameters of EACr6 that the engines read as numbers
NumericParams ==
  {"ODP", "GWP", "Refrigerant charge", "Refrigerant Charge", "Leakage Rate",
   "Equipment Life", "Equipment Cooling Capacity", "Equipment Quantity"}

\* the map d with every numeric parameter given as a string replaced by the
\* number the string holds, or by undefined where it holds no number
AsNumbers(d) ==
  [p \in DOMAIN d |->
     IF p \in NumericParams /\ d[p].t = "string" /\ d[p].s # ""
       THEN (IF d[p].s \in DOMAIN NumericStrings THEN Num(NumericStrings[d[p].s])
             ELSE Undefined)
     ELSE d[p]]

\* C25: where a number is required, a string holding a decimal number is
\* evaluated exactly as the number (ODP "0" as 0, Leakage Rate "7" as 7) and a
\* non-numeric string exactly as an absent value: the result of an EACr6
\* evaluation is the result for the map with those strings replaced.
C25_StringsAsNumbers ==
  /\ pc = "assessCredit" => result = assessCredit(creditId, AsNumbers(data), units)
  /\ pc = "evaluateCredit" => result = evaluateCredit(creditId, AsNumbers(data), units)

\* the parameters CalculationModule.calculateRefrigerantImpact reads
ImpactParams ==
  {"GWP", "ODP", "Refrigerant charge", "Leakage Rate", "Equipment Life",
   "Equipment Cooling Capacity", "Equipment Quantity"}

\* C26: the refrigerant-impact calculation is invoked only when every
\* parameter it reads is present: when option 2 is assessed and one of GWP,
\* ODP, Refrigerant charge, Leakage Rate, Equipment Life, Equipment Cooling
\* Capacity and Equipment Quantity is absent, that parameter is reported as a
\* gap and the result carries no calculations.
C26_CalculationNeedsEveryInput ==
  (Assessed /\ creditId = "EACr6" /\ result.option = 2) =>
    \A p \in ImpactParams :
      IsEmpty(data[p]) =>
        /\ Listed(p, result.gaps)
        /\ result.details.calculations = NoCalculations

----------------------------------------------------------------------------
(* The priority of a document label                                        *)

\* how many tokens a document label may have
MaxTokens == 2

LabelTokens ==
  {"manufacturer_datasheet", "equipment_schedule", "drawing", "narrative",
   "Notes", "hvac"}

\* the document names whose priority is asked for
PriorityLabels == UNION {[1..n -> LabelTokens] : n \in 0..MaxTokens}

\* options.customPriorities, in key order
CustomPriorityChoices ==
  { <<>>,
    <<[pattern |-> <<"Notes">>, priority |-> 20]>>,
    <<[pattern |-> <<"manufacturer_datasheet">>, priority |-> 8]>>,
    <<[pattern |-> <<"hvac">>, priority |-> 9],
      [pattern |-> <<"hvac", "drawing">>, priority |-> 12]>>,
    <<[pattern |-> <<"default">>, priority |-> 3]>> }

InitPriority ==
  /\ creditId = "none"
  /\ docs \in {<<[name |-> label]>> : label \in PriorityLabels}
  /\ options \in {Options("priority", custom, <<>>) : custom \in CustomPriorityChoices}
  /\ result = NoResult
  /\ pc = "input"
  /\ data = EmptyObject /\ units = "IP" /\ cons = NoResult

\* this.getDocumentPriority(conflict.document, priorities) of resolveBypriority
GetDocumentPriority ==
  /\ pc = "input"
  /\ result' = [priority |-> getDocumentPriority(docs[1].name,
                               Spread(priorityRules, options.customPriorities))]
  /\ pc' = "getDocumentPriority"
  /\ UNCHANGED <<data, units, creditId, docs, options, cons>>

SpecPriority == InitPriority /\ [][GetDocumentPriority]_vars

(* Claims about the priority of a label *)

\* the number of characters of a token, and of a pattern joined by "_"
Characters(tok) ==
  CASE tok = "manufacturer_datasheet" -> 22
    [] tok = "equipment_schedule" -> 18
    [] tok = "specification" -> 13
    [] tok = "calculation" -> 11
    [] tok = "narrative" -> 9
    [] tok = "drawing" -> 7
    [] tok = "default" -> 7
    [] tok = "Notes" -> 5
    [] OTHER -> 4

RECURSIVE PatternLength(_)
PatternLength(pattern) ==
  IF pattern = <<>> THEN 0
  ELSE Characters(Head(pattern)) + 1 + PatternLength(Tail(pattern))

\* the entries of a table, the default apart, whose pattern the label contains
Matching(table, label) ==
  SelectSeq(table, LAMBDA e : /\ e.pattern # <<"default">>
                              /\ includes(toLowerCase(label), toLowerCase(e.pattern)))

\* the score of the longest pattern among the entries
LongestScore(entries) ==
  LET k == CHOOSE i \in DOMAIN entries :
             \A j \in DOMAIN entries :
               PatternLength(entries[j].pattern) <= PatternLength(entries[i].pattern)
  IN entries[k].priority

\* the score the rule of longest pattern, custom entries first, gives a label
ScoreByLongestPattern(label, custom) ==
  IF Matching(custom, label) # <<>> THEN LongestScore(Matching(custom, label))
  ELSE IF Matching(priorityRules, label) # <<>>
    THEN LongestScore(Matching(priorityRules, label))
  ELSE DefaultPriority(Spread(priorityRules, custom))

\* C27: a document's priority is the score of the longest priority pattern its
\* label contains, a custom entry taking precedence over a built-in one that
\* also matches, and the configured default where no pattern matches.
C27_LongestPatternScores ==
  pc = "getDocumentPriority" =>
    result.priority = ScoreByLongestPattern(docs[1].name, options.customPriorities)

(* Claims relating the two engines *)

\* awarded == true exactly when awardedPoints == 1
SameAward(assessed, evaluated) ==
  Returned(assessed) =>
    /\ assessed.awarded <=> evaluated.awardedPoints = 1
    /\ assessed.points = evaluated.awardedPoints

\* C28: the two engines are one design: for every parameter map and unit
\* system LEEDRuleEngine.assessCredit and RuleEngine.evaluateCredit award the
\* same points for EACr6 and for IEQCr5.
C28_EnginesAgree ==
  (creditId \in {"EACr6", "IEQCr5"} /\ pc \in {"assessCredit", "evaluateCredit"}) =>
    SameAward(assessCredit(creditId, data, units), evaluateCredit(creditId, data, units))

(* Claims about the catalog of parameters *)

Members(list) == {list[i] : i \in DOMAIN list}

\* the names data[...] is read under while RuleEngine evaluates the credit
ParametersRead(id) ==
  CASE id = "EACr6" ->
         {"Refrigerant Used", "ODP", "GWP", "Confirmation Statement"}
         \cup Members(RuleEngineRequiredParams)
    [] id = "IEQCr5" ->
         {"Compliance Path", "PMV", "PPD", "Total Individual Spaces",
          "Controlled Spaces", "Group Controls", "Thermostat Locations"}
         \cup Members(EnvironmentalParams)
    [] id = "WECr1" -> {"Baseline Water Use", "Design Water Use"}
    [] id = "EACr1" -> {"Baseline Energy Use", "Design Energy Use", "Building Type"}
    [] id = "SSCr1" -> Members(requiredDocs)
    [] id = "MRCr1" ->
         {"Building Reuse Percentage", "Structural Elements Reuse",
          "Enclosure Materials Reuse", "Life Cycle Assessment Improvement"}
    [] OTHER -> {"Outdoor Air Delivery Monitoring", "Increased Ventilation",
                 "Air Filtration"}

\* C29: every parameter name RuleEngine reads while evaluating a credit is one
\* of the credit's parameters in RULE_DEFINITIONS, so a map keyed by the
\* catalog's names can meet every requirement: no parameter the evaluation of
\* EACr6 or SSCr1 reports as a gap is a name unknown to the catalog.
C29_ReadsOnlyCatalogNames ==
  Evaluated =>
    /\ ParametersRead(creditId) \subseteq RULE_DEFINITIONS[creditId].parameters
    /\ creditId \in {"EACr6", "SSCr1"} =>
         Members(result.gaps) \subseteq RULE_DEFINITIONS[creditId].parameters

(* Consolidation of documents that all hold the credit                     *)

OrderContents ==
  { CreditData(<<"GWP">>, "GWP" :> Whole(675)),
    CreditData(<<"GWP", "ODP">>, ("GWP" :> Whole(700)) @@ ("ODP" :> Whole(0))),
    CreditData(<<"GWP">>, "GWP" :> Str("")) }

\* multiDocData: its entries in key order, the keys distinct
OrderData ==
  UNION { { documents \in [1..n -> { Document(label, content) :
                                       label \in DocLabels, content \in OrderContents }] :
              \A i, j \in 1..n : i # j => documents[i].name # documents[j].name }
          : n \in 0..MaxDocs }

InitOrder ==
  /\ creditId = "EACr6"
  /\ docs \in OrderData
  /\ options = NoResult
  /\ cons = NoResult
  /\ pc = "input"
  /\ data = EmptyObject /\ units = "IP" /\ result = NoResult

SpecOrder == InitOrder /\ [][NextCons]_vars

(* Claims about the order of the documents *)

\* the orderings of the documents of multiDocData
Orderings ==
  {f \in [DOMAIN docs -> DOMAIN docs] : \A i, j \in DOMAIN docs : f[i] = f[j] => i = j}

Reordered(f) == [i \in DOMAIN docs |-> docs[f[i]]]

\* the documents supplying p have pairwise distinct priority scores
DistinctScores(p) ==
  \A i, j \in Suppliers(p) :
    i # j => Score(Candidate(i, p)) # Score(Candidate(j, p))

SameValueAndSource(p, other) ==
  /\ p \in DOMAIN cons.data <=> p \in DOMAIN other.data
  /\ p \in DOMAIN cons.data =>
       /\ other.data[p] = cons.data[p]
       /\ other.sources[p] = cons.sources[p]

\* C30: under the priority policy, a parameter whose supplying documents have
\* pairwise distinct priority scores gets the same consolidated value and
\* source for every ordering of the documents.
C30_OrderIndependent ==
  (Consolidated /\ options.conflictResolution = "priority") =>
    \A f \in Orderings :
      \A p \in ParameterNames :
        DistinctScores(p) => SameValueAndSource(p, consolidateData(Reordered(f), options))

\* three documents of distinct scores give GWP, and the winner is not the first
C30_Witness ==
  /\ Consolidated /\ options.conflictResolution = "priority"
  /\ Cardinality(Suppliers("GWP")) = 3
  /\ DistinctScores("GWP")
  /\ cons.sources["GWP"] # docs[1].name
  /\ cons.data["GWP"] # Get(docs[1].Values, "GWP")

============================================================================
